---- MODULE Spec2Model ----
(***************************************************************************)
(* A model of the job-offer adaptation and document composition pipeline   *)
(* of cvtex (src/generate.py, src/api.py).                                 *)
(*                                                                         *)
(* Texts are sequences of one-character strings, so that Python's          *)
(* substring test (`w in text`), lower(), upper() and replace() are        *)
(* computed rather than assumed.                                           *)
(***************************************************************************)
EXTENDS Integers, Sequences, FiniteSets, TLC

VARIABLES
    \* ---- detect_offer_language ----
    text,                  \* the offer text handed to detect_offer_language
    LANGDETECT_AVAILABLE,  \* module flag: the langdetect import succeeded
    detector,              \* what langdetect answered ("unused" if not consulted)
    language,              \* the tag returned ("none" before the call)
    lpc,                   \* "ready" | "done"
    \* ---- compile_latex ----
    cpc,                   \* "idle" | "running" (inside the for loop) | "done"
    cidx,                  \* position in the compilers list (1-based)
    tex_path,              \* the document being compiled: "cv" | "cover" | "none"
    invocations,           \* the subprocess.run calls of the current compile_latex call
    cresult,               \* "none" | "True" | "False": what compile_latex returned
    pdfs,                  \* documents whose compiled artifact a compiler has written
    ncalls,                \* compile_latex calls made so far
    \* ---- adapt_profile ----
    profile,               \* the loaded profile.json
    job_data,              \* the posting record: raw_text, keywords
    adapted,               \* the record adapt_profile returned
    apc,                   \* "ready" | "done" | "raised"
    \* ---- generate_cv, generate_cover_letter ----
    edits,                 \* keys the caller set on the adapted profile
    MISTRAL_API_KEY,       \* module flag: an API key is configured
    mistral_content,       \* what the external generator handed back
    mistral_reply,         \* how the call of the external generator went
    cv,                    \* the résumé: status "none" | "written", and its markup
    cover,                 \* the letter: status "none" | "written" | "raised",
                           \* its five segments and its markup
    \* ---- extract_keywords ----
    kw_input,              \* the argument: a text, or None (present = FALSE)
    kw_results,            \* what each call so far left: returned keywords, or raised
    \* ---- api.py request handlers ----
    served,                \* the handler that served the last request, "none" before
    request,               \* the body of the request: edited résumé fields and segments
    profile_json,          \* the profile file every handler loads
    temp_analyses,         \* the stored analyses: identifier -> posting data
    applications,          \* the stored application list, newest first
    uploaded,              \* the names of the documents in storage
    tmp_dirs,              \* the scratch directories that exist
    exchange,              \* the last request: serial, id, status, scratch directory,
                           \* files written, what compile_latex returned
    workers                \* the storage calls in progress, one per worker thread

langVars == <<text, LANGDETECT_AVAILABLE, detector, language, lpc>>

compileVars == <<cpc, cidx, tex_path, invocations, cresult, pdfs, ncalls>>

adaptVars == <<profile, job_data, adapted, apc>>

docVars == <<edits, MISTRAL_API_KEY, mistral_content, mistral_reply, cv, cover>>

kwVars == <<kw_input, kw_results>>

reqVars == <<served, request, profile_json, temp_analyses, applications, uploaded,
            tmp_dirs, exchange, workers>>

vars == <<langVars, compileVars, adaptVars, docVars, kwVars, reqVars>>

(***************************************************************************)
(* Text helpers                                                            *)
(***************************************************************************)
UpperLetters ==
    <<"A","B","C","D","E","F","G","H","I","J","K","L","M",
      "N","O","P","Q","R","S","T","U","V","W","X","Y","Z","É">>

LowerLetters ==
    <<"a","b","c","d","e","f","g","h","i","j","k","l","m",
      "n","o","p","q","r","s","t","u","v","w","x","y","z","é">>

\* str.lower() on one character
LowerChar(c) ==
    IF \E i \in 1..Len(UpperLetters) : UpperLetters[i] = c
    THEN LowerLetters[CHOOSE i \in 1..Len(UpperLetters) : UpperLetters[i] = c]
    ELSE c

\* str.upper() on one character
UpperChar(c) ==
    IF \E i \in 1..Len(LowerLetters) : LowerLetters[i] = c
    THEN UpperLetters[CHOOSE i \in 1..Len(LowerLetters) : LowerLetters[i] = c]
    ELSE c

Lower(s) == [i \in 1..Len(s) |-> LowerChar(s[i])]

Upper(s) == [i \in 1..Len(s) |-> UpperChar(s[i])]

\* Python's `w in t` on strings
IsSubstr(w, t) ==
    \E i \in 0..(Len(t) - Len(w)) : \A j \in 1..Len(w) : t[i + j] = w[j]

\* sum(1 for w in words if w in t)
CountIn(words, t) ==
    Cardinality({i \in 1..Len(words) : IsSubstr(words[i], t)})

\* sum(1 for w in words if f" {w} " in f" {t} ")
CountPadded(words, t) ==
    Cardinality({i \in 1..Len(words) :
                    IsSubstr(<<" ">> \o words[i] \o <<" ">>, <<" ">> \o t \o <<" ">>)})

RECURSIVE JoinWith(_, _)
\* sep.join(parts)
JoinWith(sep, parts) ==
    IF parts = <<>> THEN <<>>
    ELSE IF Len(parts) = 1 THEN parts[1]
    ELSE parts[1] \o sep \o JoinWith(sep, Tail(parts))

(***************************************************************************)
(* Language Classifier: detect_offer_language                              *)
(***************************************************************************)
strong_french_indicators ==
    << <<"v","o","u","s">>,
       <<"n","o","u","s">>,
       <<"v","o","t","r","e">>,
       <<"n","o","t","r","e">>,
       <<"ê","t","r","e">>,
       <<"a","v","o","i","r">>,
       <<"p","o","s","t","e">>,
       <<"r","e","j","o","i","n","d","r","e">>,
       <<"r","e","j","o","i","g","n","e","z">>,
       <<"p","o","s","t","u","l","e","r">>,
       <<"t","é","l","é","t","r","a","v","a","i","l">>,
       <<"s","a","l","a","i","r","e">>,
       <<"c","a","n","d","i","d","a","t","u","r","e">>,
       <<"c","o","n","t","r","a","t">>,
       <<"é","q","u","i","p","e">>,
       <<"e","n","t","r","e","p","r","i","s","e">>,
       <<"m","i","s","s","i","o","n","s">>,
       <<"a","v","a","n","t","a","g","e","s">>,
       <<"p","r","o","f","i","l"," ","r","e","c","h","e","r","c","h","é">>,
       <<"c","e"," ","q","u","e"," ","n","o","u","s"," ","o","f","f","r","o","n","s">>,
       <<"v","o","s"," ","m","i","s","s","i","o","n","s">> >>

strong_english_indicators ==
    << <<"y","o","u"," ","w","i","l","l">>,
       <<"w","e"," ","a","r","e">>,
       <<"y","o","u"," ","a","r","e">>,
       <<"y","o","u","r"," ","r","o","l","e">>,
       <<"r","e","s","p","o","n","s","i","b","i","l","i","t","i","e","s">>,
       <<"r","e","q","u","i","r","e","m","e","n","t","s">>,
       <<"a","b","o","u","t"," ","u","s">>,
       <<"w","h","a","t"," ","w","e"," ","o","f","f","e","r">>,
       <<"w","h","o"," ","y","o","u"," ","a","r","e">>,
       <<"w","h","a","t"," ","y","o","u","'","l","l"," ","d","o">> >>

french_words ==
    << <<"p","o","s","t","e">>,
       <<"v","o","u","s">>,
       <<"n","o","u","s">>,
       <<"é","q","u","i","p","e">>,
       <<"e","n","t","r","e","p","r","i","s","e">>,
       <<"r","e","j","o","i","n","d","r","e">>,
       <<"c","a","n","d","i","d","a","t","u","r","e">>,
       <<"p","r","o","f","i","l">>,
       <<"m","i","s","s","i","o","n","s">>,
       <<"a","v","a","n","t","a","g","e","s">>,
       <<"s","a","l","a","i","r","e">>,
       <<"e","x","p","é","r","i","e","n","c","e">>,
       <<"c","o","m","p","é","t","e","n","c","e","s">>,
       <<"f","o","r","m","a","t","i","o","n">>,
       <<"t","é","l","é","t","r","a","v","a","i","l">>,
       <<"v","o","t","r","e">>,
       <<"n","o","t","r","e">>,
       <<"ê","t","r","e">>,
       <<"a","v","o","i","r">>,
       <<"p","o","u","r">>,
       <<"d","a","n","s">>,
       <<"a","v","e","c">> >>

english_words ==
    << <<"y","o","u">>,
       <<"w","e">>,
       <<"t","e","a","m">>,
       <<"c","o","m","p","a","n","y">>,
       <<"j","o","i","n">>,
       <<"a","p","p","l","i","c","a","t","i","o","n">>,
       <<"p","r","o","f","i","l","e">>,
       <<"r","e","s","p","o","n","s","i","b","i","l","i","t","i","e","s">>,
       <<"b","e","n","e","f","i","t","s">>,
       <<"s","a","l","a","r","y">>,
       <<"e","x","p","e","r","i","e","n","c","e">>,
       <<"s","k","i","l","l","s">>,
       <<"e","d","u","c","a","t","i","o","n">>,
       <<"r","e","m","o","t","e">>,
       <<"r","o","l","e">>,
       <<"y","o","u","r">>,
       <<"o","u","r">>,
       <<"a","b","o","u","t">>,
       <<"w","i","l","l">>,
       <<"w","i","t","h">> >>

\* what langdetect.detect can do: answer French, English, another language, or raise
DetectorOutcomes == {"fr", "en", "other", "raise"}

french_strong(text_lower) == CountIn(strong_french_indicators, text_lower)

english_strong(text_lower) == CountIn(strong_english_indicators, text_lower)

\* mutant: a margin of exactly 3 is enough for English
keyword_fallback_margin_of_3(text_lower) ==
    LET french_count  == CountPadded(french_words, text_lower)
        english_count == CountPadded(english_words, text_lower)
    IN  IF english_count >= french_count + 3 THEN "en" ELSE "fr"

\* the final fallback: padded word counts, English needs a margin of more than 3
keyword_fallback(text_lower) ==
    LET french_count  == CountPadded(french_words, text_lower)
        english_count == CountPadded(english_words, text_lower)
    IN  IF english_count > french_count + 3 THEN "en" ELSE "fr"

\* TRUE iff the call gets as far as asking langdetect
consults_detector(t, avail) ==
    /\ t # <<>>
    /\ french_strong(Lower(t)) < 3
    /\ english_strong(Lower(t)) < 2
    /\ avail

\* mutant: the strong English rule is tried before the strong French rule
detect_offer_language_english_first(t, avail, d) ==
    IF t = <<>> THEN "fr"
    ELSE LET text_lower == Lower(t)
         IN  IF english_strong(text_lower) >= 2 THEN "en"
             ELSE IF french_strong(text_lower) >= 3 THEN "fr"
             ELSE IF avail /\ d # "raise"
                  THEN IF d = "fr" THEN "fr"
                       ELSE IF d = "en"
                            THEN IF french_strong(text_lower) >= 2 THEN "fr" ELSE "en"
                            ELSE "fr"
                  ELSE keyword_fallback(text_lower)

\* mutant: the strong English rule re-checks the French count, as rule 3 does
detect_offer_language_cross_checked(t, avail, d) ==
    IF t = <<>> THEN "fr"
    ELSE LET text_lower == Lower(t)
         IN  IF french_strong(text_lower) >= 3 THEN "fr"
             ELSE IF english_strong(text_lower) >= 2
                  THEN IF french_strong(text_lower) >= 2 THEN "fr" ELSE "en"
             ELSE IF avail /\ d # "raise"
                  THEN IF d = "fr" THEN "fr"
                       ELSE IF d = "en"
                            THEN IF french_strong(text_lower) >= 2 THEN "fr" ELSE "en"
                            ELSE "fr"
                  ELSE keyword_fallback(text_lower)

detect_offer_language(t, avail, d) ==
    IF t = <<>> THEN "fr"
    ELSE LET text_lower == Lower(t)
         IN  IF french_strong(text_lower) >= 3 THEN "fr"
             ELSE IF english_strong(text_lower) >= 2 THEN "en"
             ELSE IF avail /\ d # "raise"
                  THEN IF d = "fr" THEN "fr"
                       ELSE IF d = "en"
                            THEN IF french_strong(text_lower) >= 2 THEN "fr" ELSE "en"
                            ELSE "fr"
                  ELSE keyword_fallback(text_lower)

\* the phrases offer texts are assembled from
TextTokens ==
    << <<"v","o","u","s">>,
       <<"N","o","t","r","e">>,
       <<"v","o","s"," ","m","i","s","s","i","o","n","s">>,
       <<"y","o","u"," ","w","i","l","l">>,
       <<"w","h","o"," ","y","o","u"," ","a","r","e">>,
       <<"p","y","t","h","o","n">>,
       <<"w","e">>,
       <<"o","u","r"," ","t","e","a","m">> >>
\* at most this many tokens in an offer text
MaxTokens == 4

\* token index sequences in non-decreasing order (each multiset of tokens once)
TokenChoices ==
    UNION {{s \in [1..n -> 1..Len(TextTokens)] :
               \A i \in 1..(n - 1) : s[i] <= s[i + 1]} : n \in 0..MaxTokens}

OfferTexts ==
    {JoinWith(<<" ">>, [i \in 1..Len(s) |-> TextTokens[s[i]]]) : s \in TokenChoices}

LangInputs ==
    /\ text \in OfferTexts
    /\ LANGDETECT_AVAILABLE \in BOOLEAN
    /\ detector = "unused"
    /\ language = "none"
    /\ lpc = "ready"

\* the words of the offer texts that exercise the final fallback: listed
\* English and French words, a capitalised one, and words that only hold a
\* listed word
FallbackTokens ==
    << <<"Y","o","u">>, <<"w","e">>, <<"t","e","a","m">>, <<"c","o","m","p","a","n","y">>,
       <<"j","o","i","n">>, <<"v","o","u","s">>, <<"p","o","u","r">>, <<"t","e","a","m","s">>,
       <<"p","y","t","h","o","n">> >>

\* at most this many different words in such a text
MaxFallbackTokens == 5

FallbackTokenChoices ==
    UNION {{s \in [1..n -> 1..Len(FallbackTokens)] :
               \A i \in 1..(n - 1) : s[i] < s[i + 1]} : n \in 0..MaxFallbackTokens}

FallbackTexts ==
    {JoinWith(<<" ">>, [i \in 1..Len(s) |-> FallbackTokens[s[i]]]) : s \in FallbackTokenChoices}

FallbackInputs ==
    /\ text \in FallbackTexts
    /\ LANGDETECT_AVAILABLE \in BOOLEAN
    /\ detector = "unused"
    /\ language = "none"
    /\ lpc = "ready"

DetectOfferLanguage ==
    /\ lpc = "ready"
    /\ \E d \in DetectorOutcomes :
          /\ detector' = IF consults_detector(text, LANGDETECT_AVAILABLE) THEN d ELSE "unused"
          /\ language' = detect_offer_language(text, LANGDETECT_AVAILABLE, d)
    /\ lpc' = "done"
    /\ UNCHANGED <<text, LANGDETECT_AVAILABLE>>

(***************************************************************************)
(* Keyword Extractor: extract_keywords, match_score                        *)
(***************************************************************************)
\* the fixed vocabulary of generate.py:781-805, in its written order
tech_keywords ==
    << <<"g","c","p">>,
       <<"g","o","o","g","l","e"," ","c","l","o","u","d">>,
       <<"a","w","s">>,
       <<"a","z","u","r","e">>,
       <<"c","l","o","u","d">>,
       <<"k","u","b","e","r","n","e","t","e","s">>,
       <<"d","o","c","k","e","r">>,
       <<"t","e","r","r","a","f","o","r","m">>,
       <<"b","i","g","q","u","e","r","y">>,
       <<"b","i","g"," ","q","u","e","r","y">>,
       <<"a","i","r","f","l","o","w">>,
       <<"k","a","f","k","a">>,
       <<"s","p","a","r","k">>,
       <<"h","a","d","o","o","p">>,
       <<"d","a","t","a","f","l","o","w">>,
       <<"p","u","b","/","s","u","b">>,
       <<"e","t","l">>,
       <<"e","l","t">>,
       <<"p","i","p","e","l","i","n","e">>,
       <<"d","a","t","a"," ","p","i","p","e","l","i","n","e">>,
       <<"d","b","t">>,
       <<"f","i","v","e","t","r","a","n">>,
       <<"a","i","r","b","y","t","e">>,
       <<"s","q","l">>,
       <<"n","o","s","q","l">>,
       <<"p","o","s","t","g","r","e","s","q","l">>,
       <<"p","o","s","t","g","r","e","s">>,
       <<"m","y","s","q","l">>,
       <<"m","o","n","g","o","d","b">>,
       <<"r","e","d","i","s">>,
       <<"e","l","a","s","t","i","c","s","e","a","r","c","h">>,
       <<"s","n","o","w","f","l","a","k","e">>,
       <<"r","e","d","s","h","i","f","t">>,
       <<"d","a","t","a","b","r","i","c","k","s">>,
       <<"p","y","t","h","o","n">>,
       <<"j","a","v","a">>,
       <<"s","c","a","l","a">>,
       <<"g","o">>,
       <<"g","o","l","a","n","g">>,
       <<"b","a","s","h">>,
       <<"s","h","e","l","l">>,
       <<"r">>,
       <<"m","a","c","h","i","n","e"," ","l","e","a","r","n","i","n","g">>,
       <<"d","e","e","p"," ","l","e","a","r","n","i","n","g">>,
       <<"n","l","p">>,
       <<"t","e","n","s","o","r","f","l","o","w">>,
       <<"p","y","t","o","r","c","h">>,
       <<"s","c","i","k","i","t","-","l","e","a","r","n">>,
       <<"h","u","g","g","i","n","g"," ","f","a","c","e">>,
       <<"b","e","r","t">>,
       <<"l","l","m">>,
       <<"i","a">>,
       <<"a","i">>,
       <<"v","e","r","t","e","x"," ","a","i">>,
       <<"m","l","o","p","s">>,
       <<"p","o","w","e","r"," ","b","i">>,
       <<"t","a","b","l","e","a","u">>,
       <<"l","o","o","k","e","r">>,
       <<"l","o","o","k","m","l">>,
       <<"m","e","t","a","b","a","s","e">>,
       <<"d","a","t","a"," ","v","i","s","u","a","l","i","z","a","t","i","o","n">>,
       <<"d","a","s","h","b","o","a","r","d">>,
       <<"s","e","m","a","n","t","i","c"," ","l","a","y","e","r">>,
       <<"b","i">>,
       <<"r","e","p","o","r","t","i","n","g">>,
       <<"a","g","i","l","e">>,
       <<"s","c","r","u","m">>,
       <<"d","e","v","o","p","s">>,
       <<"c","i","/","c","d">>,
       <<"g","i","t">>,
       <<"d","a","t","a"," ","q","u","a","l","i","t","y">>,
       <<"d","a","t","a"," ","g","o","v","e","r","n","a","n","c","e">>,
       <<"g","o","u","v","e","r","n","a","n","c","e">>,
       <<"q","u","a","l","i","t","é"," ","d","e","s"," ","d","o","n","n","é","e","s">>,
       <<"r","g","p","d">>,
       <<"g","d","p","r">>,
       <<"d","a","t","a"," ","c","a","t","a","l","o","g">>,
       <<"m","e","t","a","d","a","t","a">>,
       <<"l","i","n","e","a","g","e">>,
       <<"a","n","g","l","a","i","s">>,
       <<"e","n","g","l","i","s","h">>,
       <<"c","o","m","m","u","n","i","c","a","t","i","o","n">>,
       <<"é","q","u","i","p","e">>,
       <<"t","e","a","m">> >>

\* the set of vocabulary terms found as substrings of the lower-cased text
extract_keywords(t) ==
    {tech_keywords[i] : i \in {j \in 1..Len(tech_keywords) : IsSubstr(tech_keywords[j], Lower(t))}}

Range(s) == {s[i] : i \in 1..Len(s)}

\* len(set(lower(item_keywords)) & set(lower(job_keywords)))
match_score(item_keywords, job_keywords) ==
    Cardinality({Lower(k) : k \in Range(item_keywords)} \cap {Lower(k) : k \in Range(job_keywords)})

(***************************************************************************)
(* Profile Adapter: adapt_profile                                          *)
(***************************************************************************)
Min(a, b) == IF a < b THEN a ELSE b

\* s[:n]
Take(s, n) == SubSeq(s, 1, Min(n, Len(s)))

\* tuple comparison of two sort keys of equal length
LexLess(a, b) ==
    \E i \in 1..Len(a) : a[i] < b[i] /\ \A j \in 1..(i - 1) : a[j] = b[j]

RECURSIVE InsertStable(_, _, _)
\* put index x, which comes after every index of `order` in the list being
\* sorted, behind the indices whose key is not greater than its own
InsertStable(order, x, keys) ==
    IF order = <<>> THEN <<x>>
    ELSE IF LexLess(keys[x], keys[order[1]]) THEN <<x>> \o order
    ELSE <<order[1]>> \o InsertStable(Tail(order), x, keys)

RECURSIVE SortedOrder(_, _)
\* list.sort(key=...) is stable: the order in which the indices 1..n come out
SortedOrder(n, keys) ==
    IF n = 0 THEN <<>> ELSE InsertStable(SortedOrder(n - 1, keys), n, keys)

\* items[order[1]], items[order[2]], ...
Reorder(items, order) == [k \in 1..Len(order) |-> items[order[k]]]

\* the list sorted by the given keys, as list.sort(key=...) leaves it
SortedBy(items, keys) == Reorder(items, SortedOrder(Len(items), keys))

\* generate.py:905-913: every experience with its score and its first 4 bullets
annotate_experiences(experiences, job_keywords) ==
    [i \in 1..Len(experiences) |->
        [score |-> match_score(experiences[i].keywords, job_keywords),
         selected_bullets |-> Take(experiences[i].bullets, 4)] @@ experiences[i]]

\* mutant: the sort key is the score alone, the declared priority is ignored
sort_experiences_score_only(annotated) ==
    SortedBy(annotated, [i \in 1..Len(annotated) |-> <<0 - annotated[i].score>>])

\* generate.py:914: experiences.sort(key=lambda x: (-x["score"], x["priority"]))
sort_experiences(annotated) ==
    SortedBy(annotated,
             [i \in 1..Len(annotated) |-> <<0 - annotated[i].score, annotated[i].priority>>])

\* generate.py:903-915
rank_experiences(experiences, job_keywords) ==
    sort_experiences(annotate_experiences(experiences, job_keywords))

\* .replace(" ", "").replace("-", "")
Clean(s) == SelectSeq(s, LAMBDA c : c \notin {" ", "-"})

\* .replace(" ", "")
NoSpaces(s) == SelectSeq(s, LAMBDA c : c # " ")

\* generate.py:929-943: the tier of one item of a skill group
skill_tier(item, job_keywords, job_text) ==
    LET item_lower == Lower(item)
        item_clean == Clean(item_lower)
    IN  IF \/ item_lower \in Range(job_keywords)
           \/ item_clean \in {Clean(k) : k \in Range(job_keywords)}
        THEN "exact"
        ELSE IF \/ IsSubstr(item_lower, job_text)
                \/ IsSubstr(item_clean, NoSpaces(job_text))
        THEN "text"
        ELSE IF \E k \in Range(job_keywords) : IsSubstr(Lower(k), item_lower)
        THEN "text"
        ELSE "other"

\* the items of the group whose tier is t, in declared order
tier_items(items, tiers, t) ==
    LET idx == SelectSeq([i \in 1..Len(items) |-> i], LAMBDA i : tiers[i] = t)
    IN  [k \in 1..Len(idx) |-> items[idx[k]]]

\* mutant: no fallback to the first 5 declared items
combine_tiers_no_fallback(items, exact_match, text_match, other_items) ==
    exact_match \o text_match \o other_items

\* mutant: the text tier is put after the other items
combine_tiers_text_last(items, exact_match, text_match, other_items) ==
    IF exact_match = <<>> /\ text_match = <<>>
    THEN Take(items, 5)
    ELSE exact_match \o other_items \o text_match

\* generate.py:945-948: the three tiers in order, or the first 5 declared items
\* when the exact and the text tier are both empty
combine_tiers(items, exact_match, text_match, other_items) ==
    IF exact_match = <<>> /\ text_match = <<>>
    THEN Take(items, 5)
    ELSE exact_match \o text_match \o other_items

\* generate.py:950-958: the entry appended to `skills`
skill_entry(skill, keyword_score, exact_match, text_match, other_items) ==
    [id |-> skill.id,
     label |-> skill.label,
     items |-> Take(combine_tiers(skill.items, exact_match, text_match, other_items), 6),
     score |-> keyword_score + Len(exact_match) * 5 + Len(text_match) * 2,
     exact_count |-> Len(exact_match)]

tiered_skill(skill, keyword_score, tiers) ==
    skill_entry(skill, keyword_score,
                tier_items(skill.items, tiers, "exact"),
                tier_items(skill.items, tiers, "text"),
                tier_items(skill.items, tiers, "other"))

\* generate.py:919-958: one skill group with its tiered, capped item list
adapt_skill(skill, job_keywords, job_text) ==
    tiered_skill(skill, match_score(skill.keywords, job_keywords),
                 [i \in 1..Len(skill.items) |->
                     skill_tier(skill.items[i], job_keywords, job_text)])

\* mutant: the groups are sorted by score alone
sort_skills_score_only(entries) ==
    SortedBy(entries, [i \in 1..Len(entries) |-> <<0 - entries[i].score>>])

\* generate.py:959: skills.sort(key=lambda x: (-x["score"], -x["exact_count"]))
sort_skills(entries) ==
    SortedBy(entries,
             [i \in 1..Len(entries) |-> <<0 - entries[i].score, 0 - entries[i].exact_count>>])

\* mutant: the sorted list is returned whole, without the cut to 7 groups
top_skills_uncut(sorted) == sorted

\* generate.py:960: skills[:7]
top_skills(sorted) == Take(sorted, 7)

\* generate.py:917-960
rank_skills(skills, job_keywords, job_text) ==
    top_skills(sort_skills([i \in 1..Len(skills) |->
                               adapt_skill(skills[i], job_keywords, job_text)]))

\* generate.py:962-968: sort the certifications by -score, keep 5
sort_certifications(annotated) ==
    Take(SortedBy(annotated, [i \in 1..Len(annotated) |-> <<0 - annotated[i].score>>]), 5)

rank_certifications(certifications, job_keywords) ==
    sort_certifications([i \in 1..Len(certifications) |->
        [score |-> match_score(certifications[i].keywords, job_keywords)]
            @@ certifications[i]])

(***************************************************************************)
(* Job Context Analyzer: analyze_job_context                               *)
(***************************************************************************)
\* any(w in t for w in words)
\* d.get(key, default) on a dict modelled as a record
Get(d, key, default) == IF key \in DOMAIN d THEN d[key] ELSE default

AnyIn(words, t) == \E i \in 1..Len(words) : IsSubstr(words[i], t)

\* [x for x in items if Keep(x)], by position
RECURSIVE FilterBy(_, _)
FilterBy(items, keep) ==
    IF items = <<>> THEN <<>>
    ELSE (IF keep[1] THEN <<items[1]>> ELSE <<>>)
             \o FilterBy(Tail(items), Tail(keep))

startup_words ==
    <<<<"s","t","a","r","t","u","p">>, <<"e","a","r","l","y"," ","s","t","a","g","e">>, <<"s","e","e","d">>, <<"s","é","r","i","e"," ","a">>>>

scaleup_words ==
    <<<<"s","c","a","l","e","-","u","p">>, <<"s","c","a","l","e","u","p">>, <<"s","é","r","i","e"," ","b">>, <<"s","é","r","i","e"," ","c">>, <<"h","y","p","e","r","-","c","r","o","i","s","s","a","n","c","e">>, <<"f","o","r","t","e"," ","c","r","o","i","s","s","a","n","c","e">>>>

group_words ==
    <<<<"g","r","o","u","p","e">>, <<"f","i","l","i","a","l","e">>, <<"c","a","c"," ","4","0">>, <<"g","r","a","n","d"," ","c","o","m","p","t","e">>, <<"l","e","a","d","e","r"," ","m","o","n","d","i","a","l">>>>

french_tech_words ==
    <<<<"f","r","e","n","c","h"," ","t","e","c","h">>, <<"n","e","x","t"," ","4","0">>, <<"n","e","x","t"," ","1","2","0">>>>

full_remote_words ==
    <<<<"f","u","l","l"," ","r","e","m","o","t","e">>, <<"1","0","0","%"," ","r","e","m","o","t","e">>, <<"t","é","l","é","t","r","a","v","a","i","l"," ","t","o","t","a","l">>>>

hybrid_words ==
    <<<<"t","é","l","é","t","r","a","v","a","i","l">>, <<"r","e","m","o","t","e">>, <<"h","y","b","r","i","d","e">>>>

\* generate.py:1277-1279
stack_keywords ==
    <<<<"b","i","g","q","u","e","r","y">>, <<"s","n","o","w","f","l","a","k","e">>, <<"d","a","t","a","b","r","i","c","k","s">>, <<"a","i","r","f","l","o","w">>, <<"d","b","t">>, <<"s","p","a","r","k">>, <<"k","a","f","k","a">>, <<"p","y","t","h","o","n">>, <<"s","q","l">>, <<"t","e","r","r","a","f","o","r","m">>, <<"d","o","c","k","e","r">>, <<"k","u","b","e","r","n","e","t","e","s">>, <<"a","w","s">>, <<"g","c","p">>, <<"a","z","u","r","e">>, <<"l","o","o","k","e","r">>, <<"t","a","b","l","e","a","u">>, <<"p","o","w","e","r"," ","b","i">>, <<"d","a","t","a","f","l","o","w">>>>

\* generate.py:1283-1290, in dict order: the value and the words that signal it
value_keywords ==
    << [value |-> <<"i","n","n","o","v","a","t","i","o","n">>,
        keywords |-> <<<<"i","n","n","o","v","a","t","i","o","n">>, <<"i","n","n","o","v","e","r">>, <<"d","i","s","r","u","p","t","i","o","n">>, <<"r","é","v","o","l","u","t","i","o","n","n","e">>>>],
       [value |-> <<"c","o","l","l","a","b","o","r","a","t","i","o","n">>,
        keywords |-> <<<<"c","o","l","l","a","b","o","r","a","t","i","o","n">>, <<"é","q","u","i","p","e">>, <<"e","n","s","e","m","b","l","e">>, <<"c","o","l","l","e","c","t","i","f">>>>],
       [value |-> <<"e","x","c","e","l","l","e","n","c","e">>,
        keywords |-> <<<<"e","x","c","e","l","l","e","n","c","e">>, <<"e","x","i","g","e","n","c","e">>, <<"q","u","a","l","i","t","é">>, <<"r","i","g","u","e","u","r">>>>],
       [value |-> <<"i","m","p","a","c","t">>,
        keywords |-> <<<<"i","m","p","a","c","t">>, <<"d","i","f","f","é","r","e","n","c","e">>, <<"t","r","a","n","s","f","o","r","m","a","t","i","o","n">>, <<"c","h","a","n","g","e","r">>>>],
       [value |-> <<"c","r","o","i","s","s","a","n","c","e">>,
        keywords |-> <<<<"c","r","o","i","s","s","a","n","c","e">>, <<"a","m","b","i","t","i","o","n">>, <<"s","c","a","l","e">>, <<"d","é","v","e","l","o","p","p","e","m","e","n","t">>>>],
       [value |-> <<"b","i","e","n","v","e","i","l","l","a","n","c","e">>,
        keywords |-> <<<<"b","i","e","n","v","e","i","l","l","a","n","c","e">>, <<"h","u","m","a","i","n">>, <<"b","i","e","n","-","ê","t","r","e">>, <<"c","a","r","e">>>>] >>

\* generate.py:1296-1303: the challenge phrase and the words that trigger it
challenge_triggers ==
    << [phrase |-> "relever des défis ambitieux", keywords |-> <<<<"c","h","a","l","l","e","n","g","e">>, <<"d","é","f","i">>>>],
       [phrase |-> "accompagner la croissance", keywords |-> <<<<"c","r","o","i","s","s","a","n","c","e">>, <<"s","c","a","l","e">>>>],
       [phrase |-> "industrialiser les pipelines", keywords |-> <<<<"i","n","d","u","s","t","r","i","a","l","i","s">>>>],
       [phrase |-> "intégrer l'IA/ML", keywords |-> <<<<"i","a">>, <<"m","a","c","h","i","n","e"," ","l","e","a","r","n","i","n","g">>, <<"m","l">>>>] >>

\* mutant: the large-group signals are looked at before the scale-up signals
company_type_of_group_first(raw_text) ==
    IF AnyIn(startup_words, raw_text) THEN "startup"
    ELSE IF AnyIn(group_words, raw_text) THEN "grand groupe"
    ELSE IF AnyIn(scaleup_words, raw_text) THEN "scale-up"
    ELSE "entreprise"

\* generate.py:1249-1258
company_type_of(raw_text) ==
    IF AnyIn(startup_words, raw_text) THEN "startup"
    ELSE IF AnyIn(scaleup_words, raw_text) THEN "scale-up"
    ELSE IF AnyIn(group_words, raw_text) THEN "grand groupe"
    ELSE "entreprise"

\* generate.py:1249-1258: the tone is set together with the company type
tone_of(raw_text) ==
    IF AnyIn(startup_words, raw_text) THEN "casual"
    ELSE IF AnyIn(scaleup_words, raw_text) THEN "casual"
    ELSE IF AnyIn(group_words, raw_text) THEN "formal"
    ELSE "professional"

\* generate.py:1232-1305 (team_size, a regex capture no other code reads, is left out)
analyze_job_context(job) ==
    LET raw_text == Lower(Get(job, "raw_text", <<>>))
    IN  [company_type   |-> company_type_of(raw_text),
         tone           |-> tone_of(raw_text),
         missions       |-> <<>>,
         values         |-> FilterBy([i \in 1..Len(value_keywords) |-> value_keywords[i].value],
                                     [i \in 1..Len(value_keywords) |->
                                         AnyIn(value_keywords[i].keywords, raw_text)]),
         tech_stack     |-> FilterBy(stack_keywords,
                                     [i \in 1..Len(stack_keywords) |->
                                         IsSubstr(stack_keywords[i], raw_text)]),
         growth_stage   |-> IF AnyIn(french_tech_words, raw_text) THEN "French Tech" ELSE "",
         remote_policy  |-> IF AnyIn(full_remote_words, raw_text) THEN "full remote"
                            ELSE IF AnyIn(hybrid_words, raw_text) THEN "hybride"
                            ELSE "",
         key_challenges |-> FilterBy([i \in 1..Len(challenge_triggers) |-> challenge_triggers[i].phrase],
                                     [i \in 1..Len(challenge_triggers) |->
                                         AnyIn(challenge_triggers[i].keywords, raw_text)])]

\* generate.py:835-845, in dict order: the archetype and the words that count for it
title_keywords ==
    << [archetype |-> "data_engineer",
        keywords |-> <<<<"e","t","l">>, <<"e","l","t">>, <<"p","i","p","e","l","i","n","e">>, <<"a","i","r","f","l","o","w">>, <<"g","c","p">>, <<"b","i","g","q","u","e","r","y">>, <<"d","a","t","a"," ","e","n","g","i","n","e","e","r">>, <<"d","b","t">>, <<"t","e","r","r","a","f","o","r","m">>, <<"k","a","f","k","a">>, <<"s","p","a","r","k">>, <<"d","a","t","a","f","l","o","w">>, <<"o","r","c","h","e","s","t","r","a","t","i","o","n">>, <<"c","l","o","u","d">>, <<"a","w","s">>, <<"a","z","u","r","e">>, <<"i","n","f","r","a","s","t","r","u","c","t","u","r","e">>>>],
       [archetype |-> "data_scientist",
        keywords |-> <<<<"m","a","c","h","i","n","e"," ","l","e","a","r","n","i","n","g">>, <<"m","l">>, <<"m","o","d","e","l">>, <<"n","l","p">>, <<"d","e","e","p"," ","l","e","a","r","n","i","n","g">>, <<"d","a","t","a"," ","s","c","i","e","n","t","i","s","t">>, <<"t","e","n","s","o","r","f","l","o","w">>, <<"p","y","t","o","r","c","h">>, <<"s","c","i","k","i","t">>, <<"p","r","e","d","i","c","t","i","o","n">>, <<"c","l","a","s","s","i","f","i","c","a","t","i","o","n">>>>],
       [archetype |-> "data_steward",
        keywords |-> <<<<"g","o","v","e","r","n","a","n","c","e">>, <<"g","o","u","v","e","r","n","a","n","c","e">>, <<"q","u","a","l","i","t","y">>, <<"q","u","a","l","i","t","é">>, <<"s","t","e","w","a","r","d">>, <<"c","a","t","a","l","o","g">>, <<"m","e","t","a","d","a","t","a">>, <<"l","i","n","e","a","g","e">>, <<"c","o","m","p","l","i","a","n","c","e">>>>],
       [archetype |-> "data_analyst",
        keywords |-> <<<<"a","n","a","l","y","s","t">>, <<"b","i">>, <<"p","o","w","e","r"," ","b","i">>, <<"t","a","b","l","e","a","u">>, <<"d","a","s","h","b","o","a","r","d">>, <<"r","e","p","o","r","t","i","n","g">>, <<"e","x","c","e","l">>, <<"b","u","s","i","n","e","s","s"," ","i","n","t","e","l","l","i","g","e","n","c","e">>>>] >>

title_scores(job_text) ==
    [i \in 1..Len(title_keywords) |-> CountIn(title_keywords[i].keywords, job_text)]

\* a max that keeps the last archetype with the top score
best_profile_last_on_ties(job_text) ==
    LET scores == title_scores(job_text)
        last == CHOOSE i \in 1..Len(scores) :
                    /\ \A j \in 1..Len(scores) : scores[j] <= scores[i]
                    /\ \A j \in (i + 1)..Len(scores) : scores[j] < scores[i]
    IN  title_keywords[last].archetype

\* max(title_scores, key=title_scores.get): the first archetype with the top score
best_profile(job_text) ==
    LET scores == title_scores(job_text)
        first == CHOOSE i \in 1..Len(scores) :
                     /\ \A j \in 1..Len(scores) : scores[j] <= scores[i]
                     /\ \A j \in 1..(i - 1) : scores[j] < scores[i]
    IN  title_keywords[first].archetype

\* the default personal introductions, each one phrase (generate.py:849-858)
base_intro_fr(p) ==
    IF "personal_intro" \in DOMAIN p THEN p.personal_intro
    ELSE <<"Avec un parcours riche en programmation/développement et spécialisé en data, [...] afin de relever de nouveaux défis.">>

base_intro_en(p) ==
    IF "personal_intro_en" \in DOMAIN p THEN p.personal_intro_en
    ELSE <<"With a rich background in programming/development and specialized in data, [...] in order to take on new challenges.">>

specialization_phrases_fr ==
    [data_engineer  |-> "Passionné par l'industrialisation des flux de données, l'optimisation des pipelines et l'infrastructure cloud.",
     data_scientist |-> "Passionné par le Machine Learning et l'IA, avec une expertise en déploiement de modèles et analyse prédictive.",
     data_steward   |-> "Expert en gouvernance des données, catalogage et qualité des données, avec une forte capacité de collaboration transverse.",
     data_analyst   |-> "Passionné par la visualisation de données et le reporting, avec une maîtrise des outils BI modernes."]

specialization_phrases_en ==
    [data_engineer  |-> "Passionate about industrializing data flows, optimizing pipelines, and cloud infrastructure.",
     data_scientist |-> "Passionate about Machine Learning and AI, with expertise in model deployment and predictive analytics.",
     data_steward   |-> "Expert in data governance, cataloging, and data quality, with strong cross-functional collaboration skills.",
     data_analyst   |-> "Passionate about data visualization and reporting, with mastery of modern BI tools."]

\* generate.py:877-890
summary_of(p, job) ==
    IF Get(job, "language", "fr") = "en"
    THEN base_intro_en(p) \o <<" ">> \o <<specialization_phrases_en[best_profile(job.raw_text)]>>
    ELSE base_intro_fr(p) \o <<" ">> \o <<specialization_phrases_fr[best_profile(job.raw_text)]>>

\* s.split(sep)[0]
BeforeFirst(s, sep) ==
    LET hits == {i \in 0..(Len(s) - Len(sep)) : \A j \in 1..Len(sep) : s[i + j] = sep[j]}
    IN  IF hits = {} THEN s
        ELSE SubSeq(s, 1, CHOOSE i \in hits : \A k \in hits : i <= k)

\* s.strip(), for the blank the texts here can hold
Strip(s) ==
    LET inked == {i \in 1..Len(s) : s[i] # " "}
    IN  IF inked = {} THEN <<>>
        ELSE SubSeq(s, CHOOSE i \in inked : \A k \in inked : i <= k,
                       CHOOSE i \in inked : \A k \in inked : i >= k)

data_title_words ==
    <<<<"d","a","t","a">>, <<"e","n","g","i","n","e","e","r">>, <<"s","c","i","e","n","t","i","s","t">>, <<"a","n","a","l","y","s","t">>, <<"b","i">>, <<"m","l">>>>

\* generate.py:892-901
display_title_of(p, job) ==
    IF job.title # <<>> /\ AnyIn(data_title_words, Lower(job.title))
    THEN Strip(BeforeFirst(BeforeFirst(job.title, <<" ", "-", " ">>), <<" ", "(">>))
    ELSE p.titles[1]

\* the subscripts of adapt_profile that raise KeyError or IndexError on a missing
\* key or an empty list: job_data["keywords"], ["raw_text"], ["title"], ["company"],
\* ["url"] (generate.py:824-831), profile["titles"][0] (899, 901),
\* exp["keywords"], exp["bullets"], x["priority"] (906-914), skill_data["keywords"],
\* ["items"], ["label"] (920-954), profile["certifications"], cert["keywords"]
\* (964-965), profile["education"], ["languages"], ["interests"] (971-973)
adapt_raises(p, job) ==
    \/ ~({"keywords", "raw_text", "title", "company", "url"} \subseteq DOMAIN job)
    \/ ~({"personal", "experiences", "skills", "certifications", "education",
          "languages", "interests"} \subseteq DOMAIN p)
    \/ /\ ~(job.title # <<>> /\ AnyIn(data_title_words, Lower(job.title)))
       /\ ("titles" \notin DOMAIN p \/ p.titles = <<>>)
    \/ \E i \in 1..Len(p.experiences) :
           ~({"keywords", "bullets", "priority"} \subseteq DOMAIN p.experiences[i])
    \/ \E i \in 1..Len(p.skills) :
           ~({"keywords", "items", "label"} \subseteq DOMAIN p.skills[i])
    \/ \E i \in 1..Len(p.certifications) : "keywords" \notin DOMAIN p.certifications[i]

\* generate.py:822-992 (logo_url and colors, which no document reads, are left out)
adapt_profile(p, job) ==
    [personal        |-> p.personal,
     job_title       |-> IF job.title # <<>> THEN job.title ELSE <<"Data Engineer">>,
     company         |-> IF job.company # <<>> THEN job.company ELSE <<"Entreprise">>,
     job_url         |-> job.url,
     summary         |-> summary_of(p, job),
     display_title   |-> display_title_of(p, job),
     experiences     |-> rank_experiences(p.experiences, job.keywords),
     skills          |-> rank_skills(p.skills, job.keywords, job.raw_text),
     certifications  |-> rank_certifications(p.certifications, job.keywords),
     education       |-> p.education,
     languages       |-> p.languages,
     interests       |-> p.interests,
     job_keywords    |-> job.keywords,
     job_location    |-> Get(job, "location", <<>>),
     job_context     |-> analyze_job_context(job),
     job_description |-> Get(job, "description", <<>>),
     language        |-> Get(job, "language", "fr")]

\* experiences a profile.json may declare
ExperiencePool ==
    << [title |-> <<"D","E">>, company |-> <<"A">>, period |-> <<"2","3">>,
        bullets |-> <<<<"b","1">>, <<"b","2">>, <<"b","3">>, <<"b","4">>, <<"b","5">>>>,
        priority |-> 1, keywords |-> <<<<"A","i","r","f","l","o","w">>, <<"S","Q","L">>>>],
       [title |-> <<"D","A">>, company |-> <<"B">>, period |-> <<"2","2">>,
        bullets |-> <<<<"c","1">>>>,
        priority |-> 2, keywords |-> <<<<"t","a","b","l","e","a","u">>, <<"s","q","l">>, <<"S","Q","L">>>>],
       [title |-> <<"D","e","v">>, company |-> <<"C">>, period |-> <<"2","1">>,
        bullets |-> <<>>,
        priority |-> 1, keywords |-> <<>>] >>

\* skill groups a profile.json may declare (the dict key is added per position)
SkillPool ==
    << [label |-> <<"L","a","n","g">>, keywords |-> <<<<"p","y","t","h","o","n">>, <<"s","q","l">>>>,
        items |-> <<<<"C","o","b","o","l">>, <<"S","Q","L">>, <<"T","-","S","Q","L">>, <<"E","x","c","e","l">>, <<"P","o","w","e","r","-","B","I">>, <<"J","a","v","a">>, <<"L","i","s","p">>, <<"P","y","t","h","o","n">>>>],
       [label |-> <<"B","I">>, keywords |-> <<<<"t","a","b","l","e","a","u">>, <<"P","o","w","e","r"," ","B","I">>>>,
        items |-> <<<<"T","a","b","l","e","a","u">>, <<"P","o","w","e","r"," ","B","I">>>>],
       [label |-> <<"O","l","d">>, keywords |-> <<>>,
        items |-> <<<<"C","o","b","o","l">>, <<"L","i","s","p">>, <<"A","d","a">>, <<"F","o","r","t","h">>, <<"B","a","s","i","c">>, <<"A","l","g","o","l">>>>],
       [label |-> <<"N","o","n","e">>, keywords |-> <<>>,
        items |-> <<>>] >>

\* certifications a profile.json may declare
CertificationPool ==
    << [name |-> <<"G","C","P">>, date |-> <<"2","4">>, keywords |-> <<<<"S","Q","L">>, <<"a","i","r","f","l","o","w">>>>],
       [name |-> <<"P","L">>, date |-> <<"2","3">>, keywords |-> <<<<"p","o","w","e","r"," ","b","i">>>>] >>

\* the phrases a posting's raw text is assembled from (raw_text is lower-cased
\* when the posting is fetched, generate.py:755)
JobTokens ==
    <<<<"s","q","l">>, <<"a","i","r","f","l","o","w">>, <<"p","o","w","e","r"," ","b","i">>, <<"e","x","c","e","l">>, <<"t","a","b","l","e","a","u">>>>

\* bounds of the profiles and postings explored
MaxExperiences == 3

MaxSkillGroups == 8

MaxCertifications == 6

MaxJobTokens == 2

ExperienceLists ==
    UNION {{[i \in 1..n |-> ExperiencePool[f[i]]] : f \in [1..n -> 1..Len(ExperiencePool)]}
              : n \in 0..MaxExperiences}

\* n groups taken round the pool from offset o, keyed by their position
SkillLists ==
    {[i \in 1..n |-> [id |-> i] @@ SkillPool[((i - 1 + o) % Len(SkillPool)) + 1]]
        : n \in 0..MaxSkillGroups, o \in 0..(Len(SkillPool) - 1)}

CertificationLists ==
    {[i \in 1..n |-> CertificationPool[((i - 1 + o) % Len(CertificationPool)) + 1]]
        : n \in 0..MaxCertifications, o \in 0..(Len(CertificationPool) - 1)}

DefaultExperiences == <<ExperiencePool[1], ExperiencePool[2]>>

DefaultSkills == <<[id |-> 1] @@ SkillPool[1], [id |-> 2] @@ SkillPool[2]>>

DefaultCertifications == <<CertificationPool[1]>>

BaseProfile ==
    [personal       |-> [name |-> <<"N">>, email |-> <<"n","@","x">>, phone |-> <<"0","6">>,
                         location |-> <<"P">>],
     titles         |-> <<<<"D","a","t","a"," ","E","n","g">>>>,
     experiences    |-> DefaultExperiences,
     skills         |-> DefaultSkills,
     certifications |-> DefaultCertifications,
     education      |-> <<[title |-> <<"M","S","c">>, school |-> <<"U">>, period |-> <<"1","9">>]>>,
     languages      |-> <<[name |-> <<"F","R">>, level |-> <<"C","2">>]>>,
     interests      |-> <<<<"g","o">>>>]

\* profiles that vary one list at a time around BaseProfile
Profiles ==
    {[BaseProfile EXCEPT !.experiences = e] : e \in ExperienceLists}
        \cup {[BaseProfile EXCEPT !.skills = s] : s \in SkillLists}
        \cup {[BaseProfile EXCEPT !.certifications = c] : c \in CertificationLists}

JobTokenChoices ==
    UNION {{s \in [1..n -> 1..Len(JobTokens)] :
               \A i \in 1..(n - 1) : s[i] <= s[i + 1]} : n \in 0..MaxJobTokens}

JobTexts ==
    {JoinWith(<<" ">>, [i \in 1..Len(s) |-> JobTokens[s[i]]]) : s \in JobTokenChoices}

\* the keywords found, in vocabulary order
KeywordOrder(found) ==
    FilterBy(tech_keywords, [j \in 1..Len(tech_keywords) |-> tech_keywords[j] \in found])

Reverse(s) == [k \in 1..Len(s) |-> s[Len(s) + 1 - k]]

\* list(set(found)) fixes no order: the keywords in vocabulary order or reversed
KeywordLists(t) ==
    {KeywordOrder(extract_keywords(t)), Reverse(KeywordOrder(extract_keywords(t)))}

\* the posting as fetch_job_offer leaves it (generate.py:755-758)
Posting(t, ks) ==
    [raw_text |-> t, keywords |-> ks, title |-> <<"D","a","t","a"," ","E","n","g">>,
     company |-> <<"A","c","m","e">>, location |-> <<"L","y","o","n">>,
     url |-> <<"u">>, description |-> <<>>, language |-> "fr"]

JobPostings ==
    UNION {{Posting(t, ks) : ks \in KeywordLists(t)} : t \in JobTexts}

\* no adapted profile yet
EmptyAdapted == [experiences |-> <<>>, skills |-> <<>>, certifications |-> <<>>]

AdaptIdle ==
    /\ profile = BaseProfile
    /\ job_data = Posting(<<>>, <<>>)
    /\ adapted = EmptyAdapted
    /\ apc = "ready"

AdaptInputs ==
    /\ job_data \in JobPostings
    /\ profile \in Profiles
    /\ adapted = EmptyAdapted
    /\ apc = "ready"

\* adapted = adapt_profile(profile, job_data)
AdaptProfile ==
    /\ apc = "ready"
    /\ IF adapt_raises(profile, job_data)
       THEN apc' = "raised" /\ adapted' = adapted
       ELSE apc' = "done" /\ adapted' = adapt_profile(profile, job_data)
    /\ UNCHANGED <<profile, job_data>>

(***************************************************************************)
(* Archetype and summary inputs of adapt_profile                           *)
(***************************************************************************)
\* the phrases of the postings that exercise the archetype scores
ArchetypeTokens ==
    << <<"e","t","l">>, <<"m","l">>, <<"s","t","e","w","a","r","d">>, <<"t","a","b","l","e","a","u">>,
       <<"p","o","w","e","r"," ","b","i">>, <<"x","y","z">> >>

MaxArchetypeTokens == 2

ArchetypeTokenChoices ==
    UNION {{s \in [1..n -> 1..Len(ArchetypeTokens)] :
               \A i \in 1..(n - 1) : s[i] <= s[i + 1]} : n \in 0..MaxArchetypeTokens}

ArchetypeTexts ==
    {JoinWith(<<" ">>, [i \in 1..Len(s) |-> ArchetypeTokens[s[i]]]) : s \in ArchetypeTokenChoices}

\* a profile that brings its own introductions (profile.get("personal_intro", ...))
IntroProfile ==
    [personal_intro |-> <<"M","o","i">>, personal_intro_en |-> <<"M","e">>] @@ BaseProfile

SummaryInputs ==
    /\ \E t \in ArchetypeTexts, l \in {"fr", "en"} :
           job_data = [Posting(t, KeywordOrder(extract_keywords(t))) EXCEPT !.language = l]
    /\ profile \in {BaseProfile, IntroProfile}
    /\ adapted = EmptyAdapted
    /\ apc = "ready"

(***************************************************************************)
(* Postings and profiles with an optional field missing                    *)
(***************************************************************************)
\* the dict d without key f
Without(d, f) == [k \in DOMAIN d \ {f} |-> d[k]]

\* the fields of a posting and of a profile taken away one at a time
OptionalPostingFields ==
    {"title", "company", "location", "description", "raw_text", "url", "language"}

OptionalProfileFields == {"titles", "certifications", "personal_intro", "personal_intro_en"}

\* a posting titled for a data role, for another role, or untitled
TitledPostings ==
    {[Posting(JobTokens[2], <<JobTokens[2]>>) EXCEPT !.title = t] :
        t \in {<<"D","a","t","a"," ","E","n","g">>, <<"C","h","e","f">>, <<>>}}

SparsePostings ==
    TitledPostings \cup {Without(j, f) : j \in TitledPostings, f \in OptionalPostingFields}

SparseProfiles ==
    {IntroProfile}
        \cup {Without(IntroProfile, f) : f \in OptionalProfileFields}
        \cup {[IntroProfile EXCEPT !.titles = <<>>]}
        \cup {[IntroProfile EXCEPT !.experiences =
                  [i \in 1..Len(@) |-> Without(@[i], "priority")]]}

SparseInputs ==
    /\ job_data \in SparsePostings
    /\ profile \in SparseProfiles
    /\ adapted = EmptyAdapted
    /\ apc = "ready"

(***************************************************************************)
(* Skill groups and postings that exercise the item tiers                  *)
(***************************************************************************)
\* skill groups a profile.json may declare: items in each tier, more than six
\* items, no matching item, no item, and a group of text-tier items only
TierPool ==
    << SkillPool[1], SkillPool[2], SkillPool[3], SkillPool[4],
       [label |-> <<"O","p","s">>, keywords |-> <<<<"A","i","r","f","l","o","w">>>>,
        items |-> <<<<"A","i","r","f","l","o","w"," ","D","A","G">>, <<"M","y","S","Q","L">>, <<"N","o","S","Q","L">>,
                    <<"S","Q","L","i","t","e">>, <<"P","L","/","S","Q","L">>>>] >>

\* bound of the skill groups of one profile
MaxTierGroups == 3

\* up to MaxTierGroups different groups in any order, keyed by their position
TierSkillLists ==
    UNION {{[i \in 1..n |-> [id |-> i] @@ TierPool[f[i]]] :
               f \in {g \in [1..n -> 1..Len(TierPool)] :
                         \A i, j \in 1..n : g[i] = g[j] => i = j}}
              : n \in 0..MaxTierGroups}

TierTexts ==
    {<<>>, JobTokens[1], JobTokens[4], JobTokens[3],
     JoinWith(<<" ">>, <<JobTokens[1], JobTokens[2]>>)}

TierInputs ==
    /\ \E t \in TierTexts : job_data = Posting(t, KeywordOrder(extract_keywords(t)))
    /\ profile \in {[BaseProfile EXCEPT !.skills = s] : s \in TierSkillLists}
    /\ adapted = EmptyAdapted
    /\ apc = "ready"

(***************************************************************************)
(* Postings that exercise the company-type signals                         *)
(***************************************************************************)
\* the phrases of these postings, as a page may capitalise them
ContextTokens ==
    << <<"S","t","a","r","t","u","p">>, <<"s","e","e","d">>, <<"S","c","a","l","e","-","U","p">>,
       <<"s","é","r","i","e"," ","B">>, <<"G","r","o","u","p","e">>, <<"C","A","C"," ","4","0">>,
       <<"f","i","l","i","a","l","e">>, <<"p","y","t","h","o","n">>, <<"h","y","b","r","i","d","e">>,
       <<"P","M","E">> >>

MaxContextTokens == 2

ContextTokenChoices ==
    UNION {{s \in [1..n -> 1..Len(ContextTokens)] :
               \A i \in 1..(n - 1) : s[i] <= s[i + 1]} : n \in 0..MaxContextTokens}

ContextTexts ==
    {JoinWith(<<" ">>, [i \in 1..Len(s) |-> ContextTokens[s[i]]]) : s \in ContextTokenChoices}

ContextInputs ==
    /\ \E t \in ContextTexts : job_data = Posting(t, KeywordOrder(extract_keywords(t)))
    /\ profile = BaseProfile
    /\ adapted = EmptyAdapted
    /\ apc = "ready"

(***************************************************************************)
(* LaTeX escaping: escape_latex                                            *)
(***************************************************************************)
\* generate.py:997-1007, in dict order. A replacement is the characters it is
\* made of; the two command names are one element each.
replacements ==
    << [old |-> "&", new |-> <<"\\", "&">>],
       [old |-> "%", new |-> <<"\\", "%">>],
       [old |-> "$", new |-> <<"\\", "$">>],
       [old |-> "#", new |-> <<"\\", "#">>],
       [old |-> "_", new |-> <<"\\", "_">>],
       [old |-> "{", new |-> <<"\\", "{">>],
       [old |-> "}", new |-> <<"\\", "}">>],
       [old |-> "~", new |-> <<"\\textasciitilde{}">>],
       [old |-> "^", new |-> <<"\\textasciicircum{}">>] >>

RECURSIVE ReplaceChar(_, _, _)
\* text.replace(old, new) for a one-character old
ReplaceChar(s, old, new) ==
    IF s = <<>> THEN <<>>
    ELSE (IF Head(s) = old THEN new ELSE <<Head(s)>>) \o ReplaceChar(Tail(s), old, new)

RECURSIVE escape_from(_, _)
\* the loop of generate.py:1008-1009 from the k-th replacement on
escape_from(s, k) ==
    IF k > Len(replacements) THEN s
    ELSE escape_from(ReplaceChar(s, replacements[k].old, replacements[k].new), k + 1)

escape_latex(s) == escape_from(s, 1)

RECURSIVE ReplaceDotDot(_)
\* text.replace("..", "."): left to right, without overlap
ReplaceDotDot(s) ==
    IF Len(s) < 2 THEN s
    ELSE IF s[1] = "." /\ s[2] = "." THEN <<".">> \o ReplaceDotDot(SubSeq(s, 3, Len(s)))
    ELSE <<s[1]>> \o ReplaceDotDot(Tail(s))

\* [x for x in items if not (x in seen or seen.add(x))]
Dedupe(items) ==
    FilterBy(items, [i \in 1..Len(items) |-> \A j \in 1..(i - 1) : items[j] # items[i]])

RECURSIVE Flatten(_)
\* the lists of a list of lists, one after the other
Flatten(lists) ==
    IF lists = <<>> THEN <<>> ELSE Head(lists) \o Flatten(Tail(lists))

(***************************************************************************)
(* Cover Letter Composer: generate_cover_letter                            *)
(***************************************************************************)
\* the phrase table `t` of generate_cover_letter (generate.py:1336-1427); a phrase
\* is one element of a text, the characters of interpolated data are one each
t_fr ==
    [babel |-> "french",
     subject |-> "Objet :",
     application_for |-> "Candidature au poste de",
     greeting |-> "Madame, Monsieur,",
     today_intro |-> "Aujourd'hui, je souhaite mettre mes compétences au service de",
     as_position |-> "en tant que",
     recruitment |-> "Service Recrutement",
     made_at |-> "Fait à",
     on_date |-> "le",
     accroche_default |-> "Passionné par la data et son potentiel de transformation, je souhaite aujourd'hui mettre mes compétences au service de votre entreprise.",
     currently |-> "Actuellement",
     at |-> "chez",
     developed_expertise |-> "j'ai développé une expertise approfondie, notamment en",
     previous_exp |-> "Mon expérience précédente en tant que",
     allowed_develop |-> "m'a permis de développer une solide culture de la qualité des données et de la collaboration transverse",
     education_complement |-> "Ma formation en",
     at_school |-> "à",
     completes_path |-> "complète ce parcours par une vision analytique rigoureuse",
     joining_team |-> "Intégrer votre équipe en tant que",
     represents_opportunity |-> "représente pour moi l'opportunité de mettre mes compétences techniques",
     at_service |-> "au service de vos projets. Ma",
     will_be_assets |-> "seront des atouts pour contribuer efficacement à la réussite de vos missions.",
     formule_formal |-> "Dans l'attente de votre réponse, je me tiens à votre disposition pour un entretien. Je vous prie d'agréer, Madame, Monsieur, l'expression de mes salutations distinguées.",
     formule_casual |-> "Je serais ravi d'échanger avec vous lors d'un entretien pour vous présenter plus en détail mon parcours et mes motivations. Dans cette attente, je vous adresse mes meilleures salutations.",
     formule_default |-> "En espérant que ma candidature retiendra votre attention, je reste à votre disposition pour un entretien. Veuillez agréer, Madame, Monsieur, mes sincères salutations.",
     qualites_default |-> "rigueur, esprit d'équipe et proactivité",
     startup_intro |-> "En tant que startup innovante,",
     offers_environment |-> "offre un environnement propice à la prise d'initiative et à l'impact direct",
     scaleup_intro |-> ", en pleine phase de croissance, représente exactement le type d'environnement dynamique où je souhaite évoluer",
     mission_caught |-> "La mission de",
     caught_attention |-> "m'a particulièrement interpellé",
     appreciate |-> "J'apprécie particulièrement",
     values_of |-> "les valeurs d'",
     animating_team |-> "qui animent votre équipe",
     your_stack |-> "votre stack technique",
     ambitious_challenges |-> "les défis ambitieux que vous proposez",
     as_well_as |-> "ainsi que",
     and |-> "et",
     member_of |-> ", membre de la",
     embodies_ambition |-> ", incarne l'ambition et l'innovation qui me motivent",
     project_impact |-> "Cette réalisation illustre ma capacité à mener des projets data à fort impact.",
     convinced_value |-> ", je suis convaincu de pouvoir apporter une réelle valeur ajoutée à votre équipe.",
     strong_experience |-> "Fort de mon expérience en tant que"]

t_en ==
    [babel |-> "english",
     subject |-> "Subject:",
     application_for |-> "Application for the position of",
     greeting |-> "Dear Hiring Manager,",
     today_intro |-> "Today, I would like to bring my skills to",
     as_position |-> "as a",
     recruitment |-> "Recruitment Department",
     made_at |-> "Written in",
     on_date |-> "on",
     accroche_default |-> "Passionate about data and its transformative potential, I am eager to contribute my skills to your organization.",
     currently |-> "Currently",
     at |-> "at",
     developed_expertise |-> "I have developed deep expertise, particularly in",
     previous_exp |-> "My previous experience as",
     allowed_develop |-> "enabled me to build a strong foundation in data quality and cross-functional collaboration",
     education_complement |-> "My education in",
     at_school |-> "at",
     completes_path |-> "complements this path with a rigorous analytical perspective",
     joining_team |-> "Joining your team as a",
     represents_opportunity |-> "represents an opportunity for me to apply my technical skills",
     at_service |-> "to support your projects. My",
     will_be_assets |-> "will be valuable assets to contribute effectively to your mission's success.",
     formule_formal |-> "I look forward to your response and remain at your disposal for an interview. Please accept my best regards.",
     formule_casual |-> "I would be delighted to discuss my background and motivations with you in an interview. Looking forward to hearing from you. Best regards.",
     formule_default |-> "I hope my application will be of interest to you, and I remain available for an interview at your convenience. Sincerely.",
     qualites_default |-> "rigor, teamwork and proactivity",
     startup_intro |-> "As an innovative startup,",
     offers_environment |-> "offers an environment conducive to initiative and direct impact",
     scaleup_intro |-> ", in full growth phase, represents exactly the kind of dynamic environment where I want to evolve",
     mission_caught |-> "The mission of",
     caught_attention |-> "particularly caught my attention",
     appreciate |-> "I particularly appreciate",
     values_of |-> "the values of",
     animating_team |-> "that drive your team",
     your_stack |-> "your tech stack",
     ambitious_challenges |-> "the ambitious challenges you offer",
     as_well_as |-> "as well as",
     and |-> "and",
     member_of |-> ", member of the",
     embodies_ambition |-> ", embodies the ambition and innovation that motivate me",
     project_impact |-> "This achievement illustrates my ability to lead high-impact data projects.",
     convinced_value |-> ", I am confident I can bring real added value to your team.",
     strong_experience |-> "With my experience as"]

t_of(lang) == IF lang = "en" THEN t_en ELSE t_fr

SegmentKeys == {"accroche", "entreprise", "moi", "nous", "conclusion"}

\* an optional dict: None, or a dict holding some keys
NoMap == [present |-> FALSE, map |-> <<>>]

SomeMap(m) == [present |-> TRUE, map |-> m]

\* Python's truth value of an optional dict
Truthy(m) == m.present /\ DOMAIN m.map # {}

\* m.get(key, default)
GetOr(m, key, default) == IF key \in DOMAIN m.map THEN m.map[key] ELSE default

\* sum(1 for kw in entry.get("keywords", []) if kw in job_keywords)
keyword_hits(keywords, job_keywords) ==
    Cardinality({i \in 1..Len(keywords) : keywords[i] \in Range(job_keywords)})

\* the index the `score > best` loops of generate.py:1462-1466 and 1480-1484
\* stop on: the first entry with the top score
first_best(entries, job_keywords) ==
    CHOOSE i \in 1..Len(entries) :
        /\ \A j \in 1..Len(entries) :
               keyword_hits(entries[j].keywords, job_keywords)
                   <= keyword_hits(entries[i].keywords, job_keywords)
        /\ \A j \in 1..(i - 1) :
               keyword_hits(entries[j].keywords, job_keywords)
                   < keyword_hits(entries[i].keywords, job_keywords)

\* generate.py:1459-1473
accroche_base(a, t) ==
    LET picked == IF a.accroches = <<>> THEN <<>>
                  ELSE a.accroches[first_best(a.accroches, a.job_keywords)].text
    IN  IF picked # <<>> THEN picked
        ELSE IF a.experiences # <<>>
        THEN <<t.strong_experience, " ">> \o a.experiences[1].title \o <<" ", t.at, " ">>
                 \o a.experiences[1].company \o <<t.convinced_value>>
        ELSE <<t.accroche_default>>

\* generate.py:1459-1487
local_accroche(a, t) ==
    LET best_accroche_score ==
            IF a.accroches = <<>> THEN 0 - 1
            ELSE keyword_hits(a.accroches[first_best(a.accroches, a.job_keywords)].keywords,
                              a.job_keywords)
    IN  IF a.projets_marquants # <<>> /\ ~(best_accroche_score > 0)
        THEN LET best_proj == a.projets_marquants[first_best(a.projets_marquants, a.job_keywords)]
             IN  best_proj.description \o <<" : ">> \o best_proj.impact
                     \o <<".", " ", t.project_impact>>
        ELSE accroche_base(a, t)

\* generate.py:1494-1501
intro_entreprise(a, t) ==
    LET ctx == a.job_context
        company == escape_latex(a.company)
    IN  IF ctx.growth_stage # ""
        THEN company \o <<t.member_of, ctx.growth_stage, t.embodies_ambition>>
        ELSE IF ctx.company_type = "startup"
        THEN <<t.startup_intro, " ">> \o company \o <<" ", t.offers_environment>>
        ELSE IF ctx.company_type = "scale-up"
        THEN company \o <<t.scaleup_intro>>
        ELSE <<t.mission_caught, " ">> \o company \o <<" ", t.caught_attention>>

\* generate.py:1504-1514
complements(ctx, t) ==
    (IF ctx.values # <<>>
     THEN << <<t.values_of>>
               \o JoinWith(<<" ", t.and, " ">>,
                           [i \in 1..Min(2, Len(ctx.values)) |-> <<ctx.values[i]>>])
               \o <<" ", t.animating_team>> >>
     ELSE <<>>)
    \o (IF ctx.tech_stack # <<>>
        THEN << <<t.your_stack, " (">>
                  \o JoinWith(<<",", " ">>,
                              [i \in 1..Min(4, Len(ctx.tech_stack)) |-> Upper(ctx.tech_stack[i])])
                  \o <<")">> >>
        ELSE <<>>)
    \o (IF ctx.key_challenges # <<>> THEN << <<t.ambitious_challenges>> >> ELSE <<>>)

\* generate.py:1517-1522: no branch assigns para_entreprise when there is no complement
para_entreprise_bound(cs) == Len(cs) >= 1

\* generate.py:1517-1522
local_para_entreprise(intro, cs, t) ==
    IF Len(cs) = 1
    THEN intro \o <<".", " ", t.appreciate, " ">> \o cs[1] \o <<".">>
    ELSE IF Len(cs) = 2
    THEN intro \o <<".", " ", t.appreciate, " ">> \o cs[1] \o <<",", " ", t.as_well_as, " ">>
             \o cs[2] \o <<".">>
    ELSE intro \o <<".", " ", t.appreciate, " ">> \o cs[1] \o <<",", " ">> \o cs[2]
             \o <<",", " ", t.and, " ">> \o cs[3] \o <<".">>

\* generate.py:1532-1542: the bullet quoted in the candidate-fit paragraph
first_bullet(main_exp, job_keywords) ==
    LET head3 == Take(main_exp.selected_bullets, 3)
        kws == Take(job_keywords, 10)
        relevant == FilterBy(head3, [i \in 1..Len(head3) |->
                        \E k \in 1..Len(kws) : IsSubstr(kws[k], Lower(head3[i]))])
        relevant_bullets == IF relevant = <<>> THEN Take(main_exp.selected_bullets, 2)
                            ELSE relevant
        bullet == relevant_bullets[1]
        undotted == IF bullet # <<>> /\ bullet[Len(bullet)] = "."
                    THEN SubSeq(bullet, 1, Len(bullet) - 1) ELSE bullet
    IN  IF undotted = <<>> THEN <<>>
        ELSE <<LowerChar(undotted[1])>> \o Tail(undotted)

\* generate.py:1527-1556
local_para_moi(a, t) ==
    LET exps == a.experiences
        parts ==
            (IF exps # <<>> /\ exps[1].selected_bullets # <<>>
             THEN << <<t.currently, " \\textbf{">> \o escape_latex(exps[1].title)
                       \o <<"} ", t.at, " \\textbf{">> \o escape_latex(exps[1].company)
                       \o <<"}, ", t.developed_expertise, " ">>
                       \o escape_latex(first_bullet(exps[1], a.job_keywords)) >>
             ELSE <<>>)
            \o (IF Len(exps) > 1
                THEN << <<t.previous_exp, " ">> \o escape_latex(exps[2].title)
                          \o <<" ", t.at, " ">> \o escape_latex(exps[2].company)
                          \o <<" ", t.allowed_develop>> >>
                ELSE <<>>)
            \o (IF a.education # <<>>
                THEN << <<t.education_complement, " ">> \o escape_latex(a.education[1].title)
                          \o <<" ", t.at_school, " ">> \o escape_latex(a.education[1].school)
                          \o <<" ", t.completes_path>> >>
                ELSE <<>>)
    IN  ReplaceDotDot(JoinWith(<<".", " ">>, parts) \o <<".">>)

\* generate.py:1562-1581: the skill items the posting names, in ranked order, once each
matching_skills(a) ==
    LET items == Flatten([i \in 1..Len(a.skills) |-> a.skills[i].items])
        job_keywords_lower == [i \in 1..Len(a.job_keywords) |-> Lower(a.job_keywords[i])]
        description == Lower(a.job_description)
    IN  Dedupe(FilterBy(items, [i \in 1..Len(items) |->
            \/ Lower(items[i]) \in Range(job_keywords_lower)
            \/ IsSubstr(Lower(items[i]), description)
            \/ \E k \in 1..Len(job_keywords_lower) :
                   /\ Len(job_keywords_lower[k]) > 2
                   /\ IsSubstr(job_keywords_lower[k], Lower(items[i]))]))

\* generate.py:1583-1590
skills_text(a) ==
    LET matching == matching_skills(a)
        top_items == Flatten([i \in 1..Min(3, Len(a.skills)) |-> Take(a.skills[i].items, 2)])
        shown == IF matching # <<>> THEN Take(matching, 4) ELSE Take(top_items, 4)
    IN  JoinWith(<<",", " ">>, [i \in 1..Len(shown) |-> escape_latex(shown[i])])

\* generate.py:1593-1596
qualites_text(a, t) ==
    IF a.qualites # <<>> THEN Lower(JoinWith(<<",", " ">>, Take(a.qualites, 3)))
    ELSE <<t.qualites_default>>

\* generate.py:1598
local_para_nous(a, t) ==
    <<t.joining_team, " ">> \o escape_latex(a.job_title)
        \o <<" ", t.represents_opportunity, " (\\textbf{">> \o skills_text(a)
        \o <<"}) ", t.at_service>> \o qualites_text(a, t) \o <<" ", t.will_be_assets>>

\* generate.py:1603-1608
local_formule(a, t) ==
    IF a.job_context.tone = "formal" THEN <<t.formule_formal>>
    ELSE IF a.job_context.tone = "casual" THEN <<t.formule_casual>>
    ELSE <<t.formule_default>>

\* the five locally composed segments, under the keys the override maps use; the
\* employer-fit text is only meaningful where para_entreprise_bound holds
local_segments(a) ==
    LET t == t_of(a.language)
        cs == complements(a.job_context, t)
    IN  [accroche   |-> local_accroche(a, t),
         entreprise |-> IF para_entreprise_bound(cs)
                        THEN local_para_entreprise(intro_entreprise(a, t), cs, t)
                        ELSE <<>>,
         moi        |-> local_para_moi(a, t),
         nous       |-> local_para_nous(a, t),
         conclusion |-> local_formule(a, t)]

\* generate.py:1613-1627
resolve_segments(local, edited_content, mistral) ==
    IF Truthy(edited_content)
    THEN [k \in SegmentKeys |-> GetOr(edited_content, k, local[k])]
    ELSE IF Truthy(mistral)
    THEN [k \in SegmentKeys |-> GetOr(mistral, k, local[k])]
    ELSE local

\* generate.py:1677-1772: the markup written, fixed template text abridged to the
\* commands around each interpolation (logo and colours are left out)
cover_content(a, seg) ==
    LET t == t_of(a.language)
        name == a.personal.name
        job_location == IF a.job_location # <<>> THEN a.job_location ELSE a.personal.location
    IN  <<"\\documentclass[11pt,a4paper]{article} \\usepackage[", t.babel,
          "]{babel} [...] \\begin{minipage}[t]{0.5\\textwidth} \\textbf{">>
        \o name \o <<"}\\\\ ">>
        \o escape_latex(a.personal.location) \o <<"\\\\ ">>
        \o escape_latex(a.personal.phone) \o <<"\\\\ ">>
        \o escape_latex(a.personal.email)
        \o <<" \\end{minipage}% [...] \\raggedleft \\textbf{">>
        \o escape_latex(a.company)
        \o <<"}\\\\ ", t.recruitment, "\\\\ \\textit{", t.made_at, " ">>
        \o escape_latex(job_location)
        \o <<", ", t.on_date, " \\today} \\end{minipage} [...] \\textcolor{mainblue}{\\textbf{",
             t.subject, "}} ", t.application_for, " ">>
        \o escape_latex(a.job_title)
        \o <<" \\vspace{0.8cm} \\noindent ", t.greeting, " \\vspace{0.5cm} \\noindent ">>
        \o escape_latex(seg.accroche)
        \o <<" ", t.today_intro, " \\textbf{">> \o escape_latex(a.company)
        \o <<"} ", t.as_position, " \\textbf{">> \o escape_latex(a.job_title)
        \o <<"}. \\vspace{0.4cm} \\noindent ">> \o seg.entreprise
        \o <<" \\vspace{0.4cm} \\noindent ">> \o seg.moi
        \o <<" \\vspace{0.4cm} \\noindent ">> \o seg.nous
        \o <<" \\vspace{0.4cm} \\noindent ">> \o seg.conclusion
        \o <<" \\vspace{0.5cm} [...] \\includegraphics[height=2cm]{sign.png}\\\\ \\textbf{">>
        \o name \o <<"} \\end{minipage} \\end{document}">>

(***************************************************************************)
(* Résumé Renderer: generate_cv                                            *)
(***************************************************************************)
\* generate.py:1020-1042: translations.get(lang, translations["fr"])
translations(lang) ==
    IF lang = "en"
    THEN [experiences |-> "EXPERIENCE", education |-> "EDUCATION", skills |-> "SKILLS",
          projects |-> "PERSONAL PROJECTS", certifications |-> "CERTIFICATIONS",
          languages |-> "LANGUAGES", interests |-> "INTERESTS", babel |-> "english"]
    ELSE [experiences |-> "EXPÉRIENCES", education |-> "FORMATIONS", skills |-> "COMPÉTENCES",
          projects |-> "PROJETS PERSONNELS", certifications |-> "CERTIFICATIONS",
          languages |-> "LANGUES", interests |-> "CENTRES D'INTÉRÊT", babel |-> "french"]

\* generate.py:1046-1065
experience_tex(exp) ==
    LET bullets == JoinWith(<<"\n">>, [i \in 1..Len(exp.selected_bullets) |->
                       <<"    \\item ">> \o escape_latex(exp.selected_bullets[i])])
    IN  <<"\\cventry{">> \o escape_latex(exp.title) \o <<"}\n{">>
            \o escape_latex(exp.company) \o <<"}\n{">> \o exp.period
            \o (IF bullets # <<>>
                THEN <<"}\n{%\n\\begin{itemize}[leftmargin=*, noitemsep, topsep=0pt]\n">>
                         \o bullets \o <<"\n\\end{itemize}\n}\n\n">>
                ELSE <<"}\n{}\n\n">>)

\* generate.py:1068-1074
education_tex(edu) ==
    <<"\\cventry{">> \o escape_latex(edu.title) \o <<"}\n{">> \o escape_latex(edu.school)
        \o <<"}\n{">> \o edu.period \o <<"}\n{}\n\n">>

\* generate.py:1077-1079
skill_tex(skill) ==
    <<"\\competence{">> \o escape_latex(skill.label) \o <<"}{">>
        \o escape_latex(JoinWith(<<",", " ">>, skill.items)) \o <<"}\n">>

\* generate.py:1082-1083
certification_tex(cert) ==
    <<"\\certification{">> \o escape_latex(cert.name) \o <<" (">> \o cert.date \o <<")}\n">>

\* generate.py:1086-1087
language_tex(lang) ==
    <<"\\certification{\\small ">> \o escape_latex(lang.name) \o <<" - ">>
        \o escape_latex(lang.level) \o <<"}\n">>

\* generate.py:1090-1091
interest_tex(interest) ==
    <<"\\certification{\\small ">> \o interest \o <<"}\n">>

\* generate.py:1095-1098
project_tex(proj) ==
    <<"\\noindent\\textbf{">> \o escape_latex(proj.name)
        \o <<"} \\hfill \\textcolor{textgray}{\\small ">> \o escape_latex(proj.technologies)
        \o <<"}\\\\\n{\\small ">> \o escape_latex(proj.description) \o <<"}\\\\[4pt]\n">>

\* generate.py:1101-1224: the markup written, fixed template text abridged to the
\* commands around each interpolation
cv_content(a) ==
    LET t == translations(a.language)
        projects_tex == Flatten([i \in 1..Len(a.projects) |-> project_tex(a.projects[i])])
    IN  <<"\\documentclass[a4paper,10pt]{article} [...] \\usepackage[", t.babel,
          "]{babel} [...] \\begin{center} {\\LARGE\\textbf{">>
        \o a.personal.name
        \o <<"}}\\\\[3pt] {\\normalsize\\textcolor{maingreen}{">>
        \o escape_latex(a.display_title)
        \o <<"}}\\\\[4pt] {\\small\\textcolor{textgray}{% \\faEnvelope\\ ">>
        \o a.personal.email \o <<" \\quad \\faPhone\\ ">>
        \o a.personal.phone \o <<" \\quad \\faMapMarker\\ ">>
        \o a.personal.location
        \o <<" }} \\end{center} [...] {\\small\\noindent\\textcolor{textgray}{%\n">>
        \o escape_latex(a.summary)
        \o <<"\n}} \\cvsection{", t.experiences, "}\n">>
        \o Flatten([i \in 1..Len(a.experiences) |-> experience_tex(a.experiences[i])])
        \o <<"\\cvsection{", t.education, "}\n">>
        \o Flatten([i \in 1..Len(a.education) |-> education_tex(a.education[i])])
        \o <<"\\cvsection{", t.skills, "}\n">>
        \o Flatten([i \in 1..Len(a.skills) |-> skill_tex(a.skills[i])])
        \o (IF projects_tex # <<>> THEN <<"\\cvsection{", t.projects, "}\n">> ELSE <<"\n">>)
        \o projects_tex
        \o <<"\\cvsection{", t.certifications, "}\n">>
        \o Flatten([i \in 1..Len(a.certifications) |-> certification_tex(a.certifications[i])])
        \o <<"\\begin{minipage}[t]{0.48\\linewidth} \\cvsection{", t.languages, "}\n">>
        \o Flatten([i \in 1..Len(a.languages) |-> language_tex(a.languages[i])])
        \o <<"\\end{minipage}% \\hfill \\begin{minipage}[t]{0.48\\linewidth} \\cvsection{",
             t.interests, "}\n">>
        \o Flatten([i \in 1..Len(a.interests) |-> interest_tex(a.interests[i])])
        \o <<"\\end{minipage} \\end{document}">>

(***************************************************************************)
(* Document generation: the inputs explored and the two generator calls    *)
(***************************************************************************)
\* the keys a caller may set on the adapted profile before the documents are
\* generated (api.py:574-582 sets projects and cover_letter); absent keys read
\* as the defaults of the adapted.get calls
NoEdits ==
    [cover_letter |-> NoMap, accroches |-> <<>>, qualites |-> <<>>,
     projets_marquants |-> <<>>, projects |-> <<>>]

\* the adapted profile as the generators read it
Enriched(a, e) == e @@ a

\* bounds of the document inputs explored
MaxProbeLen == 2

MaxDocTokens == 2

\* the characters a probed field is written with
ProbeAlphabet == <<"a", "&", "_", "~", ".">>

ProbeTexts ==
    UNION {[1..n -> Range(ProbeAlphabet)] : n \in 0..MaxProbeLen}

\* the phrases a posting's raw text is assembled from
DocTokens ==
    <<<<"s","t","a","r","t","u","p">>, <<"g","r","o","u","p","e">>,
      <<"f","r","e","n","c","h"," ","t","e","c","h">>, <<"p","y","t","h","o","n"," ","s","q","l">>,
      <<"i","n","n","o","v","a","t","i","o","n">>, <<"c","h","a","l","l","e","n","g","e">>>>

DocTokenChoices ==
    UNION {{s \in [1..n -> 1..Len(DocTokens)] :
               \A i \in 1..(n - 1) : s[i] <= s[i + 1]} : n \in 0..MaxDocTokens}

DocTexts ==
    {JoinWith(<<" ">>, [i \in 1..Len(s) |-> DocTokens[s[i]]]) : s \in DocTokenChoices}

DocPosting(t, lang) ==
    [Posting(t, KeywordOrder(extract_keywords(t))) EXCEPT !.language = lang]

DefaultPosting == DocPosting(DocTokens[4], "fr")

\* what a user-edited map and a generated map hold under a key
UserText(k) == <<"U", ":", k>>

GeneratedText(k) == <<"X", "_", k>>

\* the user-edited maps explored: None, or a dict over some keys, some values empty
UserMaps ==
    {NoMap} \cup
    {SomeMap([k \in D |-> IF k \in E THEN <<>> ELSE UserText(k)]) :
        D \in {{}, SegmentKeys, {"accroche", "moi"}, {"entreprise"},
               SegmentKeys \ {"entreprise"}},
        E \in {{}, {"accroche", "entreprise"}}}

\* what generate_cover_with_mistral may hand back (generate.py:461-592): None
\* when the service is unavailable or fails, else whatever dict the reply parsed to
GeneratedMaps ==
    {NoMap} \cup
    {SomeMap([k \in D |-> GeneratedText(k)]) :
        D \in {{}, SegmentKeys, {"moi", "nous"}, {"entreprise", "conclusion"}}}

\* the fields of the profile, the posting and the caller's keys that take a probe text
ProfileSites ==
    {"name", "email", "phone", "location", "personal_intro", "exp_title", "exp_company",
     "exp_period", "exp_bullet", "edu_title", "edu_school", "edu_period", "skill_label",
     "skill_item", "cert_name", "cert_date", "lang_name", "lang_level", "interest"}

PostingSites == {"job_title", "job_company", "job_location", "job_description"}

EditSites ==
    {"qualite", "accroche_text", "projet_description", "projet_impact",
     "project_name", "project_technologies", "project_description"}

ProbedProfile(site, v) ==
    CASE site = "name" -> [BaseProfile EXCEPT !.personal.name = v]
      [] site = "email" -> [BaseProfile EXCEPT !.personal.email = v]
      [] site = "phone" -> [BaseProfile EXCEPT !.personal.phone = v]
      [] site = "location" -> [BaseProfile EXCEPT !.personal.location = v]
      [] site = "personal_intro" -> [personal_intro |-> v] @@ BaseProfile
      [] site = "exp_title" -> [BaseProfile EXCEPT !.experiences[1].title = v]
      [] site = "exp_company" -> [BaseProfile EXCEPT !.experiences[1].company = v]
      [] site = "exp_period" -> [BaseProfile EXCEPT !.experiences[1].period = v]
      [] site = "exp_bullet" -> [BaseProfile EXCEPT !.experiences[1].bullets = <<v>>]
      [] site = "edu_title" -> [BaseProfile EXCEPT !.education[1].title = v]
      [] site = "edu_school" -> [BaseProfile EXCEPT !.education[1].school = v]
      [] site = "edu_period" -> [BaseProfile EXCEPT !.education[1].period = v]
      [] site = "skill_label" -> [BaseProfile EXCEPT !.skills[1].label = v]
      [] site = "skill_item" -> [BaseProfile EXCEPT !.skills[1].items = <<v>>]
      [] site = "cert_name" -> [BaseProfile EXCEPT !.certifications[1].name = v]
      [] site = "cert_date" -> [BaseProfile EXCEPT !.certifications[1].date = v]
      [] site = "lang_name" -> [BaseProfile EXCEPT !.languages[1].name = v]
      [] site = "lang_level" -> [BaseProfile EXCEPT !.languages[1].level = v]
      [] site = "interest" -> [BaseProfile EXCEPT !.interests = <<v>>]

ProbedPosting(site, v) ==
    CASE site = "job_title" -> [DefaultPosting EXCEPT !.title = v]
      [] site = "job_company" -> [DefaultPosting EXCEPT !.company = v]
      [] site = "job_location" -> [DefaultPosting EXCEPT !.location = v]
      [] site = "job_description" -> [DefaultPosting EXCEPT !.description = v]

DefaultProject ==
    [name |-> <<"p">>, technologies |-> <<"t">>, description |-> <<"d">>]

DefaultProjet ==
    [description |-> <<"d">>, impact |-> <<"i">>, keywords |-> <<>>]

ProbedEdits(site, v) ==
    CASE site = "qualite" -> [NoEdits EXCEPT !.qualites = <<v>>]
      [] site = "accroche_text" ->
             [NoEdits EXCEPT !.accroches = <<[text |-> v, keywords |-> <<>>]>>]
      [] site = "projet_description" ->
             [NoEdits EXCEPT !.projets_marquants = <<[DefaultProjet EXCEPT !.description = v]>>]
      [] site = "projet_impact" ->
             [NoEdits EXCEPT !.projets_marquants = <<[DefaultProjet EXCEPT !.impact = v]>>]
      [] site = "project_name" ->
             [NoEdits EXCEPT !.projects = <<[DefaultProject EXCEPT !.name = v]>>]
      [] site = "project_technologies" ->
             [NoEdits EXCEPT !.projects = <<[DefaultProject EXCEPT !.technologies = v]>>]
      [] site = "project_description" ->
             [NoEdits EXCEPT !.projects = <<[DefaultProject EXCEPT !.description = v]>>]
      [] site \in SegmentKeys ->
             [NoEdits EXCEPT !.cover_letter =
                 SomeMap([k \in SegmentKeys |-> IF k = site THEN v ELSE UserText(k)])]

\* the inputs that write the probe text v into one field of the defaults, no
\* API key configured
ProbeCases(v) ==
    {[profile |-> ProbedProfile(site, v), job_data |-> DefaultPosting, edits |-> NoEdits,
      key |-> FALSE] : site \in ProfileSites}
    \cup {[profile |-> BaseProfile, job_data |-> ProbedPosting(site, v), edits |-> NoEdits,
            key |-> FALSE] : site \in PostingSites}
    \cup {[profile |-> BaseProfile, job_data |-> DefaultPosting, edits |-> ProbedEdits(site, v),
            key |-> FALSE] : site \in EditSites \cup SegmentKeys}

\* the inputs for one posting: every user-edited map explored, with and
\* without an API key
ContextCases(posting) ==
    {[profile |-> BaseProfile, job_data |-> posting,
      edits |-> [NoEdits EXCEPT !.cover_letter = m], key |-> k] :
        m \in UserMaps, k \in BOOLEAN}

\* the inputs explored: one field probed at a time around the defaults, and
\* every posting text with every user-edited map in both languages
DocCases(probes, texts) ==
    UNION {ProbeCases(v) : v \in probes}
    \cup UNION {ContextCases(DocPosting(t, lang)) : t \in texts, lang \in {"fr", "en"}}

NoDocument == [status |-> "none", tex |-> <<>>]

NoSegments == [k \in SegmentKeys |-> <<>>]

NoLetter == [status |-> "none", segments |-> NoSegments, tex |-> <<>>]

DocIdle ==
    /\ edits = NoEdits
    /\ MISTRAL_API_KEY = FALSE
    /\ mistral_content = NoMap
    /\ mistral_reply = "not_called"
    /\ cv = NoDocument
    /\ cover = NoLetter

DocInputs ==
    /\ \E c \in DocCases(ProbeTexts, DocTexts) :
           /\ profile = c.profile
           /\ job_data = c.job_data
           /\ edits = c.edits
           /\ MISTRAL_API_KEY = c.key
    /\ mistral_content = NoMap
    /\ mistral_reply = "not_called"
    /\ adapted = EmptyAdapted
    /\ apc = "ready"
    /\ cv = NoDocument
    /\ cover = NoLetter

\* opening statements and notable projects an enriched profile may declare, with
\* none, one or two keywords of the posting
AccrochePool ==
    << [text |-> <<"A","0">>, keywords |-> <<>>],
       [text |-> <<"A","1">>, keywords |-> <<<<"s","q","l">>, <<"j","a","v","a">>>>],
       [text |-> <<"A","2">>, keywords |-> <<<<"p","y","t","h","o","n">>, <<"s","q","l">>>>] >>

ProjetPool ==
    << [description |-> <<"p","0">>, impact |-> <<"i","0">>, keywords |-> <<>>],
       [description |-> <<"p","1">>, impact |-> <<"i","1">>, keywords |-> <<<<"s","q","l">>>>],
       [description |-> <<"p","2">>, impact |-> <<"i","2">>,
        keywords |-> <<<<"s","q","l">>, <<"p","y","t","h","o","n">>>>] >>

\* at most this many opening statements, and this many notable projects
MaxHookEntries == 2

HookLists(pool) ==
    UNION {{[i \in 1..n |-> pool[f[i]]] : f \in [1..n -> 1..Len(pool)]} : n \in 0..MaxHookEntries}

HookInputs ==
    /\ \E accs \in HookLists(AccrochePool), projs \in HookLists(ProjetPool) :
           edits = [NoEdits EXCEPT !.accroches = accs, !.projets_marquants = projs]
    /\ profile \in {BaseProfile, [BaseProfile EXCEPT !.experiences = <<>>]}
    /\ job_data = DefaultPosting
    /\ MISTRAL_API_KEY = FALSE
    /\ mistral_content = NoMap
    /\ mistral_reply = "not_called"
    /\ adapted = EmptyAdapted
    /\ apc = "ready"
    /\ cv = NoDocument
    /\ cover = NoLetter

\* résumés whose section lists are each empty or filled: the profile's
\* experiences, education, skills and certifications and the projects a caller
\* sets on the adapted profile, in both languages
SectionInputs ==
    /\ \E e \in {<<>>, DefaultExperiences}, d \in {<<>>, BaseProfile.education},
          s \in {<<>>, DefaultSkills}, c \in {<<>>, DefaultCertifications} :
           profile = [BaseProfile EXCEPT !.experiences = e, !.education = d,
                                         !.skills = s, !.certifications = c]
    /\ edits \in {NoEdits, [NoEdits EXCEPT !.projects = <<DefaultProject>>]}
    /\ job_data \in {DocPosting(DocTokens[4], l) : l \in {"fr", "en"}}
    /\ MISTRAL_API_KEY = FALSE
    /\ mistral_content = NoMap
    /\ mistral_reply = "not_called"
    /\ adapted = EmptyAdapted
    /\ apc = "ready"
    /\ cv = NoDocument
    /\ cover = NoLetter

\* postings for the employer-fit paragraph: one phrase, or none, for each of
\* the opening clause, the values, the tech stack and the challenges
OpeningPhrases ==
    {<<>>, <<"F","r","e","n","c","h"," ","T","e","c","h">>, <<"s","t","a","r","t","u","p">>,
     <<"s","é","r","i","e"," ","B">>,
     <<"s","t","a","r","t","u","p"," ","N","e","x","t"," ","4","0">>}

ValuePhrases ==
    {<<>>, <<"i","m","p","a","c","t">>,
     <<"i","m","p","a","c","t"," ","r","i","g","u","e","u","r">>,
     <<"i","m","p","a","c","t"," ","r","i","g","u","e","u","r"," ","i","n","n","o","v","e","r">>}

StackPhrases ==
    {<<>>, <<"S","Q","L">>,
     <<"s","q","l"," ","d","b","t"," ","k","a","f","k","a"," ","a","w","s"," ","g","c","p">>}

ChallengePhrases == {<<>>, <<"d","é","f","i">>}

EmployerFitTexts ==
    {JoinWith(<<" ">>, FilterBy(<<o, v, s, c>>, [i \in 1..4 |-> <<o, v, s, c>>[i] # <<>>])) :
        o \in OpeningPhrases, v \in ValuePhrases, s \in StackPhrases, c \in ChallengePhrases}

EmployerFitInputs ==
    /\ \E t \in EmployerFitTexts, l \in {"fr", "en"} : job_data = DocPosting(t, l)
    /\ profile = BaseProfile
    /\ edits = NoEdits
    /\ MISTRAL_API_KEY = FALSE
    /\ mistral_content = NoMap
    /\ mistral_reply = "not_called"
    /\ adapted = EmptyAdapted
    /\ apc = "ready"
    /\ cv = NoDocument
    /\ cover = NoLetter

\* postings for the collaboration pitch: keywords and a description that some,
\* many or none of the skill items of TierPool match
PitchPostings ==
    LET keyed(t) == Posting(t, KeywordOrder(extract_keywords(t)))
    IN  {keyed(<<"s","q","l">>),
         keyed(<<"k","a","f","k","a">>),
         keyed(<<"d","é","f","i"," ","b","i">>),
         [keyed(<<"d","é","f","i">>) EXCEPT
             !.description = <<"A","d","a"," ","e","t"," ","T","a","b","l","e","a","u">>],
         [keyed(<<"s","q","l">>) EXCEPT !.description = <<"J","a","v","a">>]}

PitchInputs ==
    /\ job_data \in PitchPostings
    /\ profile \in {[BaseProfile EXCEPT !.skills = s] : s \in TierSkillLists}
    /\ edits = NoEdits
    /\ MISTRAL_API_KEY = FALSE
    /\ mistral_content = NoMap
    /\ mistral_reply = "not_called"
    /\ adapted = EmptyAdapted
    /\ apc = "ready"
    /\ cv = NoDocument
    /\ cover = NoLetter

\* vocabulary terms a posting may name; "team" is the last term of the vocabulary
OrderTokens ==
    << <<"g","c","p">>, <<"a","w","s">>, <<"g","i","t">>, <<"e","t","l">>, <<"d","b","t">>,
       <<"s","q","l">>, <<"n","l","p">>, <<"l","l","m">>, <<"b","a","s","h">>, <<"j","a","v","a">>,
       <<"t","e","a","m">> >>

MaxOrderTokens == 11

\* postings that name the last n of the terms and a challenge
OrderTexts ==
    {JoinWith(<<" ">>, <<<<"d","é","f","i">>>>
                       \o SubSeq(OrderTokens, Len(OrderTokens) + 1 - Min(n, Len(OrderTokens)),
                                 Len(OrderTokens))) : n \in 0..MaxOrderTokens}

\* a profile whose current experience has one bullet about a term of the posting
OrderProfile ==
    [BaseProfile EXCEPT !.experiences =
        <<[title |-> <<"D","E">>, company |-> <<"A">>, period |-> <<"2","3">>,
           bullets |-> <<<<"P","l","a","n","s">>, <<"L","e","d"," ","a"," ","t","e","a","m">>>>,
           priority |-> 1, keywords |-> <<<<"S","Q","L">>>>]>>]

\* keyword lists in either order that list(set(found)) may give (generate.py:812)
OrderInputs ==
    /\ \E t \in OrderTexts : \E ks \in KeywordLists(t) : job_data = Posting(t, ks)
    /\ profile \in {BaseProfile, OrderProfile}
    /\ edits = NoEdits
    /\ MISTRAL_API_KEY = FALSE
    /\ mistral_content = NoMap
    /\ mistral_reply = "not_called"
    /\ adapted = EmptyAdapted
    /\ apc = "ready"
    /\ cv = NoDocument
    /\ cover = NoLetter

\* generate_cv(adapted, output_path)
GenerateCV ==
    /\ apc = "done"
    /\ cv.status = "none"
    /\ cv' = [status |-> "written", tex |-> cv_content(Enriched(adapted, edits))]
    /\ UNCHANGED <<adaptVars, edits, MISTRAL_API_KEY, mistral_content, mistral_reply, cover>>

\* the letter written from the resolved segments
written_letter(a, segments) ==
    [status |-> "written", segments |-> segments, tex |-> cover_content(a, segments)]

\* what generate_cover_letter leaves: the five segments and the markup written,
\* or an UnboundLocalError where para_entreprise is read without having been
\* assigned (generate.py:1617, 1624 or 1745, whichever comes first)
letter_result(a, mistral) ==
    IF ~para_entreprise_bound(complements(a.job_context, t_of(a.language)))
    THEN [status |-> "raised", segments |-> NoSegments, tex |-> <<>>]
    ELSE written_letter(a, resolve_segments(local_segments(a), a.cover_letter, mistral))

\* how a call of the external generator can go: the client library is not
\* installed (MISTRAL_AVAILABLE is False, generate.py:46-50), the request fails
\* on the network, the reply is not JSON, or the reply is JSON
MistralReplies == {"not_installed", "network_error", "unparseable", "json"}

\* mutant: a reply that is not JSON escapes as an exception
generate_cover_with_mistral_unguarded_parse(key, reply, content) ==
    IF reply = "not_installed" \/ ~key
    THEN [status |-> "returned", content |-> NoMap]
    ELSE IF reply = "network_error"
    THEN [status |-> "returned", content |-> NoMap]
    ELSE IF reply = "unparseable"
    THEN [status |-> "raised", content |-> NoMap]
    ELSE [status |-> "returned", content |-> content]

\* generate.py:461-592: None when the generator is not available or not
\* configured (464-466) and when the request or json.loads raises (570-592),
\* otherwise the parsed reply
generate_cover_with_mistral(key, reply, content) ==
    IF reply = "not_installed" \/ ~key
    THEN [status |-> "returned", content |-> NoMap]
    ELSE IF reply \in {"network_error", "unparseable"}
    THEN [status |-> "returned", content |-> NoMap]
    ELSE [status |-> "returned", content |-> content]

\* generate_cover_letter(adapted, output_path, profile=profile), which every
\* caller runs after generate_cv (api.py:472-481, 591-600, 827-836;
\* generate.py:1900-1907); the external generator is called only when
\* MISTRAL_API_KEY is set (generate.py:1432-1437)
GenerateCoverLetter ==
    /\ apc = "done"
    /\ cv.status = "written"
    /\ cover.status = "none"
    /\ \E reply \in (IF MISTRAL_API_KEY THEN MistralReplies ELSE {"not_called"}) :
       \E content \in (IF reply = "json" THEN GeneratedMaps ELSE {NoMap}) :
           LET generated == generate_cover_with_mistral(MISTRAL_API_KEY, reply, content)
           IN  /\ mistral_reply' = reply
               /\ mistral_content' = generated.content
               /\ cover' = IF generated.status = "raised"
                           THEN [status |-> "raised", segments |-> NoSegments, tex |-> <<>>]
                           ELSE letter_result(Enriched(adapted, edits), generated.content)
    /\ UNCHANGED <<adaptVars, edits, MISTRAL_API_KEY, cv>>

(***************************************************************************)
(* Compilation Orchestrator: compile_latex                                 *)
(***************************************************************************)
\* the fixed list of generate.py:1783-1786, in order
compilers == <<"tectonic", "pdflatex">>

\* what one subprocess.run can end in: FileNotFoundError (binary absent), a
\* non-zero exit with "not found" in stderr, a non-zero exit with a real error,
\* TimeoutExpired after 120 s, or exit code zero
RunOutcomes == {"absent", "not_found_stderr", "error", "timeout", "zero"}

Documents == {"cv", "cover"}

\* compile_latex calls made in one run of the model
MaxCompileCalls == 2

CompileIdle ==
    /\ cpc = "idle"
    /\ cidx = 1
    /\ tex_path = "none"
    /\ invocations = <<>>
    /\ cresult = "none"
    /\ pdfs = {}
    /\ ncalls = 0

\* entry of compile_latex(tex_path)
CompileLatex_Call ==
    /\ cpc \in {"idle", "done"}
    /\ ncalls < MaxCompileCalls
    /\ \E doc \in Documents : tex_path' = doc
    /\ cpc' = "running"
    /\ cidx' = 1
    /\ invocations' = <<>>
    /\ cresult' = "none"
    /\ ncalls' = ncalls + 1
    /\ UNCHANGED pdfs

\* mutant: a real compilation error ends the call with False instead of
\* moving on to the next compiler
CompileLatex_Try_stop_on_error ==
    /\ cpc = "running"
    /\ cidx <= Len(compilers)
    /\ \E o \in RunOutcomes :
          /\ invocations' = Append(invocations, [name |-> compilers[cidx], outcome |-> o])
          /\ IF o = "zero"
             THEN /\ cpc' = "done"
                  /\ cresult' = "True"
                  /\ pdfs' = pdfs \cup {tex_path}
                  /\ UNCHANGED cidx
             ELSE IF o = "error"
             THEN /\ cpc' = "done"
                  /\ cresult' = "False"
                  /\ UNCHANGED <<cidx, pdfs>>
             ELSE /\ cidx' = cidx + 1
                  /\ UNCHANGED <<cpc, cresult, pdfs>>
    /\ UNCHANGED <<tex_path, ncalls>>

\* mutant: exit code zero is noted but the loop goes on to the next compiler
CompileLatex_Try_no_return ==
    /\ cpc = "running"
    /\ cidx <= Len(compilers)
    /\ \E o \in RunOutcomes :
          /\ invocations' = Append(invocations, [name |-> compilers[cidx], outcome |-> o])
          /\ IF o = "zero" /\ cidx = Len(compilers)
             THEN /\ cpc' = "done"
                  /\ cresult' = "True"
                  /\ pdfs' = pdfs \cup {tex_path}
                  /\ UNCHANGED cidx
             ELSE /\ cidx' = cidx + 1
                  /\ pdfs' = IF o = "zero" THEN pdfs \cup {tex_path} ELSE pdfs
                  /\ UNCHANGED <<cpc, cresult>>
    /\ UNCHANGED <<tex_path, ncalls>>

\* one iteration of `for cmd, name in compilers`: run the compiler; exit code
\* zero returns True, every other outcome goes on to the next compiler
CompileLatex_Try ==
    /\ cpc = "running"
    /\ cidx <= Len(compilers)
    /\ \E o \in RunOutcomes :
          /\ invocations' = Append(invocations, [name |-> compilers[cidx], outcome |-> o])
          /\ IF o = "zero"
             THEN /\ cpc' = "done"
                  /\ cresult' = "True"
                  /\ pdfs' = pdfs \cup {tex_path}
                  /\ UNCHANGED cidx
             ELSE /\ cidx' = cidx + 1
                  /\ UNCHANGED <<cpc, cresult, pdfs>>
    /\ UNCHANGED <<tex_path, ncalls>>

\* the loop is exhausted: print the warning and return False
CompileLatex_Exhausted ==
    /\ cpc = "running"
    /\ cidx > Len(compilers)
    /\ cpc' = "done"
    /\ cresult' = "False"
    /\ UNCHANGED <<cidx, tex_path, invocations, pdfs, ncalls>>

(***************************************************************************)
(* Keyword Extractor calls: extract_keywords(text)                         *)
(***************************************************************************)
\* the phrases a text handed to extract_keywords is assembled from
KeywordTokens ==
    << <<"S","Q","L">>, <<"P","o","s","t","g","r","e","S","Q","L">>, <<"G","o">>,
       <<"É","q","u","i","p","e">>, <<"b","i","g"," ","q","u","e","r","y">>, <<"x","y","z">> >>

\* bounds of the extractor calls explored
MaxKeywordTokens == 2

MaxKeywordCalls == 2

KeywordTokenChoices ==
    UNION {{s \in [1..n -> 1..Len(KeywordTokens)] :
               \A i \in 1..(n - 1) : s[i] <= s[i + 1]} : n \in 0..MaxKeywordTokens}

\* the arguments explored: a string, or None
KeywordArguments ==
    {[present |-> TRUE, text |-> JoinWith(<<" ">>, [i \in 1..Len(s) |-> KeywordTokens[s[i]]])] :
        s \in KeywordTokenChoices}
    \cup {[present |-> FALSE, text |-> <<>>]}

KeywordIdle ==
    /\ kw_input = [present |-> FALSE, text |-> <<>>]
    /\ kw_results = <<>>

KeywordInputs ==
    /\ kw_input \in KeywordArguments
    /\ kw_results = <<>>

\* one extract_keywords(text) call: text.lower() raises AttributeError on None
\* (generate.py:778); otherwise list(set(found)) comes back in some order
ExtractKeywords ==
    /\ Len(kw_results) < MaxKeywordCalls
    /\ IF kw_input.present
       THEN \E ks \in KeywordLists(kw_input.text) :
                kw_results' = Append(kw_results, [status |-> "returned", keywords |-> ks])
       ELSE kw_results' = Append(kw_results, [status |-> "raised", keywords |-> <<>>])
    /\ UNCHANGED kw_input

(***************************************************************************)
(* Request handlers of api.py: generate, finalize, regenerate              *)
(*                                                                         *)
(* Each handler loads the profile, builds the adapted record and writes    *)
(* the two markups. The variables follow the loaded profile, the adapted   *)
(* record and the markups; compilation is the Compilation Orchestrator     *)
(* above.                                                                  *)
(***************************************************************************)
\* the body of a FinalizeRequest (api.py:226-251)
RequestContent ==
    [cv |-> [summary |-> <<"S","u","m">>, display_title |-> <<"T","i","t">>,
             skills |-> <<[label |-> <<"L">>, items |-> <<<<"i","1">>, <<"i","2">>>>]>>,
             projects |-> <<DefaultProject>>],
     coverLetter |-> [k \in SegmentKeys |-> UserText(k)]]

NoRequest ==
    [cv |-> [summary |-> <<>>, display_title |-> <<>>, skills |-> <<>>, projects |-> <<>>],
     coverLetter |-> [k \in SegmentKeys |-> <<>>]]

\* the identifiers requests are made for (api.py:317 draws them from uuid4)
Ids == {1, 2}

\* requests served in one run of the model
MaxServed == 4

\* no request served yet
NoExchange ==
    [n |-> 0, id |-> 0, status |-> 0, tmp_dir |-> 0, written |-> {},
     compiled |-> [cv |-> "none", cover |-> "none"]]

RequestIdle ==
    /\ served = "none"
    /\ request = NoRequest
    /\ profile_json = BaseProfile
    /\ temp_analyses = <<>>
    /\ applications = <<>>
    /\ uploaded = {}
    /\ tmp_dirs = {}
    /\ exchange = NoExchange
    /\ workers = <<>>

\* the postings an analysis may have stored: two that the letter composer
\* accepts, in either language, and one with no complement clause
RequestPostings ==
    {DocPosting(DocTokens[4], "fr"), DocPosting(DocTokens[4], "en"), DocPosting(<<>>, "fr")}

\* the service as it starts: the profile file, no stored analysis, no
\* application, no request served yet
RequestInputs ==
    /\ served = "none"
    /\ request = RequestContent
    /\ profile_json = BaseProfile
    /\ profile = profile_json
    /\ job_data = DefaultPosting
    /\ edits = NoEdits
    /\ MISTRAL_API_KEY = FALSE
    /\ mistral_content = NoMap
    /\ mistral_reply = "not_called"
    /\ adapted = EmptyAdapted
    /\ apc = "ready"
    /\ cv = NoDocument
    /\ cover = NoLetter
    /\ temp_analyses = <<>>
    /\ applications = <<>>
    /\ uploaded = {}
    /\ tmp_dirs = {}
    /\ exchange = NoExchange
    /\ workers = <<>>

\* the keys finalize and regenerate set on the adapted record from the request
\* (api.py:558-582, 796-814)
request_edits(req) ==
    [NoEdits EXCEPT !.cover_letter = SomeMap(req.coverLetter), !.projects = req.cv.projects]

\* generate_cover_letter reads adapted["company"] and adapted["job_title"] first
\* (generate.py:1321-1322): KeyError on a record without them
letter_or_key_error(a, mistral) ==
    IF {"company", "job_title"} \subseteq DOMAIN a
    THEN letter_result(a, mistral)
    ELSE [status |-> "raised", segments |-> NoSegments, tex |-> <<>>]

\* f"cv_{id}.tex", f"cv_{id}.pdf", f"cover_{id}.tex", f"cover_{id}.pdf"
\* (api.py:470-484)
FileName(doc, ext, id) == [doc |-> doc, ext |-> ext, id |-> id]

\* compile_latex returns True after an exit code zero, which leaves the PDF next
\* to the markup, and False otherwise (generate.py:1780-1816)
compile_result(ok) == IF ok THEN "True" ELSE "False"

\* mutant: the directory is removed on the normal exit only
temporary_directory_exit_on_success(dirs, dir, raised) ==
    IF raised THEN dirs ELSE dirs \ {dir}

\* leaving `with tempfile.TemporaryDirectory() as tmp_dir` (api.py:466, 584,
\* 820): the directory is removed whether the block ends normally or raises
temporary_directory_exit(dirs, dir, raised) == dirs \ {dir}

\* the block of api.py:466-489 (584-607, 820-844) for request `id` in the
\* directory `dir`: the markup of each document is written and compiled, the
\* handlers ignoring what compile_latex returns; upload_pdf then reads each PDF
\* (api.py:180-201), which raises FileNotFoundError for a PDF that was not made.
\* `letter` is how generate_cover_letter ended.
documents_block(id, dir, letter, cv_ok, cover_ok) ==
    LET cv_files == {FileName("cv", "tex", id)}
                        \cup (IF cv_ok THEN {FileName("cv", "pdf", id)} ELSE {})
        cover_files == IF letter # "written" THEN {}
                       ELSE {FileName("cover", "tex", id)}
                                \cup (IF cover_ok THEN {FileName("cover", "pdf", id)} ELSE {})
        cv_uploaded == letter = "written" /\ cv_ok
        cover_uploaded == cv_uploaded /\ cover_ok
    IN  [written  |-> {[dir |-> dir, file |-> f] : f \in cv_files \cup cover_files},
         compiled |-> [cv |-> compile_result(cv_ok),
                       cover |-> IF letter = "written" THEN compile_result(cover_ok) ELSE "none"],
         uploads  |-> (IF cv_uploaded THEN {FileName("cv", "pdf", id)} ELSE {})
                          \cup (IF cover_uploaded THEN {FileName("cover", "pdf", id)} ELSE {}),
         raised   |-> ~cover_uploaded]

\* the record of a request answered with HTTPException(404) before any work
NotFound(id) ==
    [n |-> exchange.n + 1, id |-> id, status |-> 404, tmp_dir |-> 0, written |-> {},
     compiled |-> [cv |-> "none", cover |-> "none"]]

\* the record of a request that went through the block: 500 from the
\* `except Exception` of the handler, or the success reply
Answered(id, block) ==
    [n |-> exchange.n + 1, id |-> id, status |-> IF block.raised THEN 500 ELSE 200,
     tmp_dir |-> exchange.n + 1, written |-> block.written, compiled |-> block.compiled]

\* the application record of api.py:492-508; finalize adds cvData and coverData
\* (api.py:609-641)
application_record(id, posting) ==
    [id |-> id, company |-> posting.company, position |-> posting.title,
     status |-> "submitted", language |-> Get(posting, "language", "fr"),
     cvPath |-> FileName("cv", "pdf", id), coverPath |-> FileName("cover", "pdf", id)]

\* save_application in local-file mode (api.py:108-111)
save_application(apps, application) == <<application>> \o apps

\* get_application_by_id in local-file mode (api.py:133-137): the first record
\* with the id, or none
application_index(apps, id) ==
    IF \E i \in 1..Len(apps) : apps[i].id = id
    THEN CHOOSE i \in 1..Len(apps) :
             apps[i].id = id /\ \A j \in 1..(i - 1) : apps[j].id # id
    ELSE 0

\* update_application in local-file mode (api.py:118-123): app.update(updates) on
\* the first record with the id
update_application(apps, id, updates) ==
    LET i == application_index(apps, id)
    IN  IF i = 0 THEN apps ELSE [apps EXCEPT ![i] = updates @@ @]

\* mutant: the analysis file is left in place
delete_temp_analysis_keeps_file(temps, id) == temps

\* delete_temp_analysis (api.py:172-178)
delete_temp_analysis(temps, id) == [x \in (DOMAIN temps) \ {id} |-> temps[x]]

\* POST /api/analyze (api.py:297-353): the posting fetched is stored under a new
\* identifier (the fetch itself and the reply are left out)
AnalyzeJob ==
    /\ exchange.n < MaxServed
    /\ served' = "analyze"
    /\ \E id \in Ids, posting \in RequestPostings :
           /\ id \notin DOMAIN temp_analyses
           /\ \A i \in 1..Len(applications) : applications[i].id # id
           /\ temp_analyses' = (id :> [job_data |-> posting]) @@ temp_analyses
           /\ exchange' = [n |-> exchange.n + 1, id |-> id, status |-> 200, tmp_dir |-> 0,
                           written |-> {}, compiled |-> [cv |-> "none", cover |-> "none"]]
    /\ UNCHANGED <<adaptVars, docVars, request, profile_json, applications, uploaded,
                   tmp_dirs, workers>>

\* POST /api/preview (api.py:355-440)
PreviewDocuments ==
    /\ exchange.n < MaxServed
    /\ served' = "preview"
    /\ \E id \in Ids :
           IF id \notin DOMAIN temp_analyses
           THEN /\ exchange' = NotFound(id)
                /\ UNCHANGED adaptVars
           ELSE /\ job_data' = temp_analyses[id].job_data
                /\ profile' = profile_json
                /\ adapted' = adapt_profile(profile', job_data')
                /\ apc' = "done"
                /\ exchange' = [NotFound(id) EXCEPT !.status = 200]
    /\ UNCHANGED <<docVars, request, profile_json, temp_analyses, applications, uploaded,
                   tmp_dirs, workers>>

\* POST /api/generate (api.py:442-534)
GenerateDocuments ==
    /\ exchange.n < MaxServed
    /\ served' = "generate"
    /\ \E id \in Ids, cv_ok, cover_ok \in BOOLEAN :
           IF id \notin DOMAIN temp_analyses
           THEN /\ exchange' = NotFound(id)
                /\ UNCHANGED <<adaptVars, edits, cv, cover, temp_analyses, applications,
                               uploaded, tmp_dirs>>
           ELSE /\ job_data' = temp_analyses[id].job_data
                /\ profile' = profile_json
                /\ adapted' = adapt_profile(profile', job_data')
                /\ apc' = "done"
                /\ edits' = NoEdits
                /\ cv' = [status |-> "written", tex |-> cv_content(Enriched(adapted', edits'))]
                /\ cover' = letter_or_key_error(Enriched(adapted', edits'), NoMap)
                /\ LET block == documents_block(id, exchange.n + 1, cover'.status, cv_ok, cover_ok)
                   IN  /\ uploaded' = uploaded \cup block.uploads
                       /\ tmp_dirs' = temporary_directory_exit(tmp_dirs \cup {exchange.n + 1},
                                                               exchange.n + 1, block.raised)
                       /\ exchange' = Answered(id, block)
                       /\ IF block.raised
                          THEN UNCHANGED <<applications, temp_analyses>>
                          ELSE /\ applications' =
                                      save_application(applications,
                                                       application_record(id, job_data'))
                               /\ temp_analyses' = delete_temp_analysis(temp_analyses, id)
    /\ UNCHANGED <<request, MISTRAL_API_KEY, mistral_content, mistral_reply, profile_json,
                   workers>>

\* POST /api/finalize (api.py:535-652)
FinalizeDocuments ==
    /\ exchange.n < MaxServed
    /\ served' = "finalize"
    /\ \E id \in Ids, cv_ok, cover_ok \in BOOLEAN :
           IF id \notin DOMAIN temp_analyses
           THEN /\ exchange' = NotFound(id)
                /\ UNCHANGED <<adaptVars, edits, cv, cover, temp_analyses, applications,
                               uploaded, tmp_dirs>>
           ELSE /\ job_data' = temp_analyses[id].job_data
                /\ profile' = profile_json
                /\ adapted' = [summary |-> request.cv.summary,
                               display_title |-> request.cv.display_title,
                               skills |-> request.cv.skills] @@ adapt_profile(profile', job_data')
                /\ apc' = "done"
                /\ edits' = request_edits(request)
                /\ cv' = [status |-> "written", tex |-> cv_content(Enriched(adapted', edits'))]
                /\ cover' = letter_or_key_error(Enriched(adapted', edits'), NoMap)
                /\ LET block == documents_block(id, exchange.n + 1, cover'.status, cv_ok, cover_ok)
                   IN  /\ uploaded' = uploaded \cup block.uploads
                       /\ tmp_dirs' = temporary_directory_exit(tmp_dirs \cup {exchange.n + 1},
                                                               exchange.n + 1, block.raised)
                       /\ exchange' = Answered(id, block)
                       /\ IF block.raised
                          THEN UNCHANGED <<applications, temp_analyses>>
                          ELSE /\ applications' =
                                      save_application(applications,
                                          [cvData |-> request.cv, coverData |-> request.coverLetter]
                                              @@ application_record(id, job_data'))
                               /\ temp_analyses' = delete_temp_analysis(temp_analyses, id)
    /\ UNCHANGED <<request, MISTRAL_API_KEY, mistral_content, mistral_reply, profile_json,
                   workers>>

\* for exp in adapted["experiences"]: exp["selected_bullets"] = exp.get("bullets", [])[:4]
\* (api.py:817-818), where adapted["experiences"] is profile's own list (api.py:800)
with_selected_bullets(experiences) ==
    [i \in 1..Len(experiences) |->
        [selected_bullets |-> Take(experiences[i].bullets, 4)] @@ experiences[i]]

\* POST /api/applications/{app_id}/regenerate (api.py:777-885)
RegenerateDocuments ==
    /\ exchange.n < MaxServed
    /\ served' = "regenerate"
    /\ \E id \in Ids, cv_ok, cover_ok \in BOOLEAN :
           IF application_index(applications, id) = 0
           THEN /\ exchange' = NotFound(id)
                /\ UNCHANGED <<adaptVars, edits, cv, cover, applications, uploaded, tmp_dirs>>
           ELSE /\ profile' = [profile_json EXCEPT !.experiences = with_selected_bullets(@)]
                /\ adapted' = [personal |-> profile_json.personal,
                               summary |-> request.cv.summary,
                               display_title |-> request.cv.display_title,
                               experiences |-> profile'.experiences,
                               education |-> profile_json.education,
                               skills |-> request.cv.skills,
                               certifications |-> profile_json.certifications,
                               languages |-> profile_json.languages,
                               interests |-> profile_json.interests,
                               language |-> Get(applications[application_index(applications, id)],
                                                "language", "fr")]
                /\ apc' = "done"
                /\ edits' = request_edits(request)
                /\ cv' = [status |-> "written", tex |-> cv_content(Enriched(adapted', edits'))]
                /\ cover' = letter_or_key_error(Enriched(adapted', edits'), NoMap)
                /\ LET block == documents_block(id, exchange.n + 1, cover'.status, cv_ok, cover_ok)
                   IN  /\ uploaded' = uploaded \cup block.uploads
                       /\ tmp_dirs' = temporary_directory_exit(tmp_dirs \cup {exchange.n + 1},
                                                               exchange.n + 1, block.raised)
                       /\ exchange' = Answered(id, block)
                       /\ applications' =
                              IF block.raised THEN applications
                              ELSE update_application(applications, id,
                                       [cv_path |-> FileName("cv", "pdf", id),
                                        cover_path |-> FileName("cover", "pdf", id),
                                        cv_data |-> request.cv,
                                        cover_data |-> request.coverLetter])
                       /\ UNCHANGED job_data
    /\ UNCHANGED <<request, MISTRAL_API_KEY, mistral_content, mistral_reply, profile_json,
                   temp_analyses, workers>>

(***************************************************************************)
(* Concurrent requests in local-file mode                                  *)
(*                                                                         *)
(* The handlers are plain functions, which the server runs on a pool of    *)
(* worker threads. Each worker serves one request; its steps are the       *)
(* accesses to what the requests share: the stored analyses, the document  *)
(* storage and the application list file, which load_applications_local    *)
(* reads whole and save_applications_local writes whole (api.py:68-76).    *)
(* A read or a write of the file is taken as one step.                     *)
(***************************************************************************)
\* worker threads serving requests at the same time
MaxWorkers == 2

Workers == 1..MaxWorkers

IdleWorker == [op |-> "none", id |-> 0, pc |-> "idle", loaded |-> <<>>, status |-> 0]

\* the service with requests about to arrive: two analyses stored, or one
\* analysis and the application saved from the other
StorageInputs ==
    /\ \E ids \in {Ids, {1}} :
           /\ temp_analyses = [id \in ids |-> [job_data |-> DefaultPosting]]
           /\ applications = IF ids = Ids THEN <<>>
                             ELSE <<application_record(2, DefaultPosting)>>
           /\ uploaded = {FileName(doc, "pdf", id) : doc \in Documents, id \in Ids \ ids}
    /\ workers = [w \in Workers |-> IdleWorker]
    /\ served = "none"
    /\ request = NoRequest
    /\ profile_json = BaseProfile
    /\ tmp_dirs = {}
    /\ exchange = NoExchange

\* a worker takes a request: POST /api/generate, PATCH .../status or
\* DELETE /api/applications/{id}. generate starts with get_temp_analysis
\* (api.py:447-449); the other two go straight to the application list.
Request_Begin(w) ==
    /\ workers[w].pc = "idle"
    /\ \E op \in {"generate", "status", "delete"}, id \in Ids :
           workers' = [workers EXCEPT ![w] =
               [@ EXCEPT !.op = op, !.id = id,
                         !.pc = IF op # "generate" THEN "load"
                                ELSE IF id \in DOMAIN temp_analyses THEN "documents"
                                ELSE "done",
                         !.status = IF op = "generate" /\ id \notin DOMAIN temp_analyses
                                    THEN 404 ELSE 0]]
    /\ UNCHANGED <<served, request, profile_json, temp_analyses, applications, uploaded,
                   tmp_dirs, exchange>>

\* generate, api.py:466-489: the documents are written, compiled and uploaded in
\* the worker's own scratch directory
Generate_Documents(w) ==
    /\ workers[w].pc = "documents"
    /\ \E cv_ok, cover_ok \in BOOLEAN :
           LET block == documents_block(workers[w].id, w, "written", cv_ok, cover_ok)
           IN  /\ uploaded' = uploaded \cup block.uploads
               /\ tmp_dirs' = temporary_directory_exit(tmp_dirs \cup {w}, w, block.raised)
               /\ workers' = [workers EXCEPT ![w] =
                      [@ EXCEPT !.pc = IF block.raised THEN "done" ELSE "load",
                                !.status = IF block.raised THEN 500 ELSE 0]]
    /\ UNCHANGED <<served, request, profile_json, temp_analyses, applications, exchange>>

\* applications = load_applications_local() (api.py:109, 697, 709)
LoadApplications(w) ==
    /\ workers[w].pc = "load"
    /\ workers' = [workers EXCEPT ![w] = [@ EXCEPT !.loaded = applications, !.pc = "save"]]
    /\ UNCHANGED <<served, request, profile_json, temp_analyses, applications, uploaded,
                   tmp_dirs, exchange>>

\* generate: applications.insert(0, application); save_applications_local(applications)
\* (api.py:110-111)
SaveApplication_Save(w) ==
    /\ workers[w].pc = "save"
    /\ workers[w].op = "generate"
    /\ applications' = save_application(workers[w].loaded,
                                        application_record(workers[w].id, DefaultPosting))
    /\ workers' = [workers EXCEPT ![w] = [@ EXCEPT !.pc = "cleanup"]]
    /\ UNCHANGED <<served, request, profile_json, temp_analyses, uploaded, tmp_dirs, exchange>>

\* generate: delete_temp_analysis(request.id) and the success reply (api.py:514-525)
Generate_Cleanup(w) ==
    /\ workers[w].pc = "cleanup"
    /\ temp_analyses' = IF workers[w].id \in DOMAIN temp_analyses
                        THEN delete_temp_analysis(temp_analyses, workers[w].id)
                        ELSE temp_analyses
    /\ workers' = [workers EXCEPT ![w] = [@ EXCEPT !.pc = "done", !.status = 200]]
    /\ UNCHANGED <<served, request, profile_json, applications, uploaded, tmp_dirs, exchange>>

\* update_application_status (api.py:709-714): the first record with the id gets
\* the new status, and the list is written back
UpdateStatus_Save(w) ==
    /\ workers[w].pc = "save"
    /\ workers[w].op = "status"
    /\ applications' = update_application(workers[w].loaded, workers[w].id,
                                          [status |-> "interview"])
    /\ workers' = [workers EXCEPT ![w] = [@ EXCEPT !.pc = "done", !.status = 200]]
    /\ UNCHANGED <<served, request, profile_json, temp_analyses, uploaded, tmp_dirs, exchange>>

\* delete_application (api.py:697-699): the list without the records of the id is
\* written back
DeleteApplication_Save(w) ==
    /\ workers[w].pc = "save"
    /\ workers[w].op = "delete"
    /\ applications' = FilterBy(workers[w].loaded,
                                [i \in 1..Len(workers[w].loaded) |->
                                    workers[w].loaded[i].id # workers[w].id])
    /\ workers' = [workers EXCEPT ![w] = [@ EXCEPT !.pc = "done", !.status = 200]]
    /\ UNCHANGED <<served, request, profile_json, temp_analyses, uploaded, tmp_dirs, exchange>>

(***************************************************************************)
(* Specifications                                                          *)
(***************************************************************************)
LangIdle ==
    /\ text = <<>>
    /\ LANGDETECT_AVAILABLE = FALSE
    /\ detector = "unused"
    /\ language = "none"
    /\ lpc = "ready"

LangNext == DetectOfferLanguage /\ UNCHANGED <<compileVars, adaptVars, docVars, kwVars, reqVars>>

LangInit == LangInputs /\ CompileIdle /\ AdaptIdle /\ DocIdle /\ KeywordIdle /\ RequestIdle

SpecLang == LangInit /\ [][LangNext]_vars

FallbackInit == FallbackInputs /\ CompileIdle /\ AdaptIdle /\ DocIdle /\ KeywordIdle /\ RequestIdle

SpecFallback == FallbackInit /\ [][LangNext]_vars

CompileInit == CompileIdle /\ LangIdle /\ AdaptIdle /\ DocIdle /\ KeywordIdle /\ RequestIdle

CompileNext ==
    \/ CompileLatex_Call /\ UNCHANGED <<langVars, adaptVars, docVars, kwVars, reqVars>>
    \/ CompileLatex_Try /\ UNCHANGED <<langVars, adaptVars, docVars, kwVars, reqVars>>
    \/ CompileLatex_Exhausted /\ UNCHANGED <<langVars, adaptVars, docVars, kwVars, reqVars>>

SpecCompile == CompileInit /\ [][CompileNext]_vars

\* subprocess.run is bounded by timeout=120, so an iteration that has started
\* always ends, and the loop is over a two-element list
SpecCompileFair ==
    /\ CompileInit
    /\ [][CompileNext]_vars
    /\ WF_vars(CompileLatex_Try /\ UNCHANGED <<langVars, adaptVars, docVars, kwVars, reqVars>>)
    /\ WF_vars(CompileLatex_Exhausted /\ UNCHANGED <<langVars, adaptVars, docVars, kwVars, reqVars>>)

AdaptInit == AdaptInputs /\ LangIdle /\ CompileIdle /\ DocIdle /\ KeywordIdle /\ RequestIdle

AdaptNext == AdaptProfile /\ UNCHANGED <<langVars, compileVars, docVars, kwVars, reqVars>>

SpecAdapt == AdaptInit /\ [][AdaptNext]_vars

DocInit == DocInputs /\ LangIdle /\ CompileIdle /\ KeywordIdle /\ RequestIdle

DocNext ==
    \/ AdaptProfile /\ UNCHANGED <<langVars, compileVars, docVars, kwVars, reqVars>>
    \/ GenerateCV /\ UNCHANGED <<langVars, compileVars, kwVars, reqVars>>
    \/ GenerateCoverLetter /\ UNCHANGED <<langVars, compileVars, kwVars, reqVars>>

SpecDocs == DocInit /\ [][DocNext]_vars

HookInit == HookInputs /\ LangIdle /\ CompileIdle /\ KeywordIdle /\ RequestIdle

SpecHook == HookInit /\ [][DocNext]_vars

SectionInit == SectionInputs /\ LangIdle /\ CompileIdle /\ KeywordIdle /\ RequestIdle

SpecSections == SectionInit /\ [][DocNext]_vars

EmployerFitInit == EmployerFitInputs /\ LangIdle /\ CompileIdle /\ KeywordIdle /\ RequestIdle

SpecEmployerFit == EmployerFitInit /\ [][DocNext]_vars

PitchInit == PitchInputs /\ LangIdle /\ CompileIdle /\ KeywordIdle /\ RequestIdle

SpecPitch == PitchInit /\ [][DocNext]_vars

KeywordInit == KeywordInputs /\ LangIdle /\ CompileIdle /\ AdaptIdle /\ DocIdle /\ RequestIdle

KeywordNext == ExtractKeywords /\ UNCHANGED <<langVars, compileVars, adaptVars, docVars, reqVars>>

SpecKeywords == KeywordInit /\ [][KeywordNext]_vars

SummaryInit == SummaryInputs /\ LangIdle /\ CompileIdle /\ DocIdle /\ KeywordIdle /\ RequestIdle

SpecSummary == SummaryInit /\ [][AdaptNext]_vars

SparseInit == SparseInputs /\ LangIdle /\ CompileIdle /\ DocIdle /\ KeywordIdle /\ RequestIdle

SpecSparse == SparseInit /\ [][AdaptNext]_vars

TierInit == TierInputs /\ LangIdle /\ CompileIdle /\ DocIdle /\ KeywordIdle /\ RequestIdle

SpecTiers == TierInit /\ [][AdaptNext]_vars

ContextInit == ContextInputs /\ LangIdle /\ CompileIdle /\ DocIdle /\ KeywordIdle /\ RequestIdle

SpecContext == ContextInit /\ [][AdaptNext]_vars

OrderInit == OrderInputs /\ LangIdle /\ CompileIdle /\ KeywordIdle /\ RequestIdle

SpecOrder == OrderInit /\ [][DocNext]_vars

StorageInit == StorageInputs /\ LangIdle /\ CompileIdle /\ AdaptIdle /\ DocIdle /\ KeywordIdle

StorageNext ==
    \E w \in Workers :
        \/ Request_Begin(w) /\ UNCHANGED <<langVars, compileVars, adaptVars, docVars, kwVars>>
        \/ Generate_Documents(w) /\ UNCHANGED <<langVars, compileVars, adaptVars, docVars, kwVars>>
        \/ LoadApplications(w) /\ UNCHANGED <<langVars, compileVars, adaptVars, docVars, kwVars>>
        \/ SaveApplication_Save(w) /\ UNCHANGED <<langVars, compileVars, adaptVars, docVars, kwVars>>
        \/ Generate_Cleanup(w) /\ UNCHANGED <<langVars, compileVars, adaptVars, docVars, kwVars>>
        \/ UpdateStatus_Save(w) /\ UNCHANGED <<langVars, compileVars, adaptVars, docVars, kwVars>>
        \/ DeleteApplication_Save(w) /\ UNCHANGED <<langVars, compileVars, adaptVars, docVars, kwVars>>

SpecStorage == StorageInit /\ [][StorageNext]_vars

RequestInit == RequestInputs /\ LangIdle /\ CompileIdle /\ KeywordIdle

RequestNext ==
    \/ AnalyzeJob /\ UNCHANGED <<langVars, compileVars, kwVars>>
    \/ PreviewDocuments /\ UNCHANGED <<langVars, compileVars, kwVars>>
    \/ GenerateDocuments /\ UNCHANGED <<langVars, compileVars, kwVars>>
    \/ FinalizeDocuments /\ UNCHANGED <<langVars, compileVars, kwVars>>
    \/ RegenerateDocuments /\ UNCHANGED <<langVars, compileVars, kwVars>>

SpecRequests == RequestInit /\ [][RequestNext]_vars

(***************************************************************************)
(* Claims                                                                  *)
(***************************************************************************)
\* what generate_cover_letter composes locally from the adapted profile in hand
LocalSegments == local_segments(Enriched(adapted, edits))

\* C1: when the adapted profile carries no user-edited segment map and the
\* external generator handed back no map, a finished generate_cover_letter call
\* has not raised and has left all five segments (hook, employer-fit,
\* candidate-fit, collaboration, closing) non-empty, whatever the job context,
\* a context with no values, no tech-stack tokens and no challenges included.
C1_LocalCompositionYieldsFiveSegments ==
    (/\ cover.status # "none"
     /\ ~edits.cover_letter.present
     /\ ~mistral_content.present)
        => /\ cover.status = "written"
           /\ \A k \in SegmentKeys : cover.segments[k] # <<>>

\* C2: when the user-edited map supplies all five segment keys, a finished
\* generate_cover_letter call has used exactly the map's values as the five
\* segments (an empty value stays empty), whatever the external generator
\* handed back and whatever the local composition gives.
C2_FullUserMapUsedVerbatim ==
    (/\ cover.status # "none"
     /\ edits.cover_letter.present
     /\ DOMAIN edits.cover_letter.map = SegmentKeys)
        => /\ cover.status = "written"
           /\ \A k \in SegmentKeys : cover.segments[k] = edits.cover_letter.map[k]

\* C3: in a letter that was written, each of the five segments is resolved on
\* its own by priority: the user map's value if that map supplies the key,
\* otherwise the external map's value if that map supplies the key, otherwise
\* the locally composed text.
C3_SegmentsResolvedByPriority ==
    cover.status = "written"
        => \A k \in SegmentKeys :
               cover.segments[k] =
                   IF edits.cover_letter.present /\ k \in DOMAIN edits.cover_letter.map
                   THEN edits.cover_letter.map[k]
                   ELSE IF mistral_content.present /\ k \in DOMAIN mistral_content.map
                   THEN mistral_content.map[k]
                   ELSE LocalSegments[k]

\* the characters C4 is about
EscapedCharacters == {"&", "%", "$", "#", "_", "{", "}"}

\* a character of interpolated data (template text is never a single special
\* character of the markup sequence) that no backslash precedes
HasUnescaped(tex) ==
    \E i \in 1..Len(tex) :
        /\ tex[i] \in EscapedCharacters
        /\ (i = 1 \/ tex[i - 1] # "\\")

\* C4: in the markup of both documents, every & % $ # _ { } that comes from
\* interpolated data (profile fields, posting fields, user-edited or generated
\* letter segments) is preceded by a backslash.
C4_InterpolatedDataIsEscaped ==
    /\ cv.status = "written" => ~HasUnescaped(cv.tex)
    /\ cover.status = "written" => ~HasUnescaped(cover.tex)

\* number of distinct lower-cased keywords of a profile entry that are also
\* lower-cased posting keywords
KeywordOverlap(entry_keywords, posting_keywords) ==
    Cardinality({x \in {Lower(k) : k \in Range(entry_keywords)} :
                    \E j \in 1..Len(posting_keywords) : Lower(posting_keywords[j]) = x})

IndexPermutations(n) == {f \in [1..n -> 1..n] : \A i, j \in 1..n : f[i] = f[j] => i = j}

\* C5: the adapted experience list is a permutation of the profile's experiences
\* (same length, nothing dropped or duplicated), ordered by descending match
\* score (case-insensitive keyword overlap with the posting keywords), then
\* ascending declared priority, remaining ties in original profile order.
C5_ExperiencesStablyRanked ==
    apc = "done" =>
        LET src == profile.experiences
            out == adapted.experiences
            n   == Len(src)
            score(i) == KeywordOverlap(src[i].keywords, job_data.keywords)
        IN  /\ Len(out) = n
            /\ \E f \in IndexPermutations(n) :
                  /\ \A k \in 1..n :
                        /\ [x \in DOMAIN src[f[k]] |-> out[k][x]] = src[f[k]]
                        /\ out[k].score = score(f[k])
                  /\ \A k, l \in 1..n : k < l =>
                        \/ score(f[k]) > score(f[l])
                        \/ /\ score(f[k]) = score(f[l])
                           /\ src[f[k]].priority < src[f[l]].priority
                        \/ /\ score(f[k]) = score(f[l])
                           /\ src[f[k]].priority = src[f[l]].priority
                           /\ f[k] < f[l]

\* three experiences, the first two of the result tied on a non-zero score and
\* put in priority order against their profile order, case-insensitively matched
C5_Witness ==
    /\ apc = "done"
    /\ Len(profile.experiences) = 3
    /\ adapted.experiences[1].score = 1
    /\ adapted.experiences[2].score = 1
    /\ adapted.experiences[1].priority < adapted.experiences[2].priority
    /\ profile.experiences[1].priority > profile.experiences[2].priority
    /\ adapted.experiences[1].title = profile.experiences[2].title
    /\ adapted.experiences[3].score = 0

\* C6: at most 7 skill groups are returned and no more than the profile
\* declares; every returned group lists at most 6 items, each declared in that
\* group; the returned groups are the first 7 of the ranked order (descending
\* score, then descending exact count, ties in declaration order).
C6_SkillGroupsCapped ==
    apc = "done" =>
        LET src == profile.skills
            out == adapted.skills
            n   == Len(src)
            all == [i \in 1..n |-> adapt_skill(src[i], job_data.keywords, job_data.raw_text)]
            Before(a, b) ==
                \/ a.score > b.score
                \/ a.score = b.score /\ a.exact_count > b.exact_count
                \/ a.score = b.score /\ a.exact_count = b.exact_count /\ a.id < b.id
        IN  /\ Len(out) <= 7
            /\ Len(out) <= n
            /\ Len(out) = Min(7, n)
            /\ \A k \in 1..Len(out) :
                  /\ out[k].id \in 1..n
                  /\ out[k] = all[out[k].id]
                  /\ Len(out[k].items) <= 6
                  /\ \A i \in 1..Len(out[k].items) :
                        out[k].items[i] \in Range(src[out[k].id].items)
            /\ \A k, l \in 1..Len(out) : k < l => Before(out[k], out[l])
            /\ \A d \in 1..n :
                  (\A k \in 1..Len(out) : out[k].id # d)
                      => \A k \in 1..Len(out) : Before(out[k], all[d])

\* eight declared groups cut to seven, one of them with its items cut to six
C6_Witness ==
    /\ apc = "done"
    /\ Len(profile.skills) = 8
    /\ Len(adapted.skills) = 7
    /\ \E k \in 1..Len(adapted.skills) :
          /\ Len(adapted.skills[k].items) = 6
          /\ Len(profile.skills[adapted.skills[k].id].items) > 6
          /\ adapted.skills[k].exact_count > 0

\* C7: compile_latex returns True exactly when a compiler it ran exited with
\* code zero; every other outcome of a compiler (binary absent, "not found" in
\* stderr, non-zero exit, timeout) falls through to the next one, so False is
\* returned only after every compiler of the list was run and none exited zero.
C7_SuccessIffSomeCompilerExitsZero ==
    cpc = "done" =>
        /\ cresult \in {"True", "False"}
        /\ cresult = "True" <=> \E i \in 1..Len(invocations) : invocations[i].outcome = "zero"
        /\ cresult = "False" =>
               /\ Len(invocations) = Len(compilers)
               /\ \A i \in 1..Len(invocations) : invocations[i].outcome # "zero"

C7_Witness ==
    /\ cpc = "done"
    /\ Len(invocations) = 2
    /\ invocations[1] = [name |-> "tectonic", outcome |-> "absent"]
    /\ invocations[2] = [name |-> "pdflatex", outcome |-> "zero"]
    /\ cresult = "True"

C8_InOrderAtMostOnce ==
    /\ Len(invocations) <= Len(compilers)
    /\ \A i \in 1..Len(invocations) : invocations[i].name = compilers[i]
    /\ \A i \in 1..(Len(invocations) - 1) : invocations[i].outcome # "zero"
    /\ cpc = "done" => cresult \in {"True", "False"}

\* C8: compile_latex runs the compilers strictly in list order (tectonic before
\* pdflatex), each at most once, runs no compiler after one has exited with code
\* zero, and every call that has started ends with a boolean result.
C8_OrderedAndTerminates ==
    /\ []C8_InOrderAtMostOnce
    /\ (cpc = "running") ~> (cpc = "done" /\ cresult \in {"True", "False"})

C8_Witness ==
    /\ cpc = "done"
    /\ cresult = "False"
    /\ Len(invocations) = 2
    /\ invocations[1].name = "tectonic" /\ invocations[1].outcome = "timeout"
    /\ invocations[2].name = "pdflatex" /\ invocations[2].outcome = "error"

\* C9: a text holding at least 3 of the strong French indicators is classified
\* "fr", whatever else it holds (strong English phrases, technical tokens) and
\* whether or not the statistical detector is available.
C9_ThreeFrenchSignalsGiveFr ==
    (lpc = "done" /\ french_strong(Lower(text)) >= 3) => language = "fr"

C9_Witness ==
    /\ lpc = "done"
    /\ french_strong(Lower(text)) >= 3
    /\ english_strong(Lower(text)) >= 2
    /\ IsSubstr(<<"p","y","t","h","o","n">>, Lower(text))
    /\ language = "fr"

\* C10 as stated: with at least 2 strong English signals the result is "en" only
\* if fewer than 2 strong French signals are present, and "fr" if there are 2 or more.
C10_AsClaimed ==
    (lpc = "done" /\ english_strong(Lower(text)) >= 2)
        => /\ (language = "en" => french_strong(Lower(text)) < 2)
           /\ (french_strong(Lower(text)) >= 2 => language = "fr")

\* C10 amended: with at least 2 strong English signals the result is "en" exactly
\* when fewer than 3 strong French signals are present; exactly 2 French signals
\* do not override the English verdict (the French >= 2 re-check guards only the
\* statistical detector's "en" answer).
C10_EnglishUnlessThreeFrench ==
    (lpc = "done" /\ english_strong(Lower(text)) >= 2)
        => language = (IF french_strong(Lower(text)) >= 3 THEN "fr" ELSE "en")

C10_Witness ==
    /\ lpc = "done"
    /\ english_strong(Lower(text)) >= 2
    /\ french_strong(Lower(text)) = 2
    /\ language = "en"

\* the vocabulary terms occurring in the lower-cased text
TermsOccurring(t) == {w \in Range(tech_keywords) : IsSubstr(w, Lower(t))}

NoDuplicates(s) == \A i, j \in 1..Len(s) : s[i] = s[j] => i = j

\* C11: every extract_keywords call returns a duplicate-free collection of
\* vocabulary terms, exactly those occurring as substrings of the lower-cased
\* text; repeated calls on the same input yield the same set; and an absent
\* or empty input yields the empty set without failing.
C11_KeywordsExactAndTotal ==
    /\ \A i \in 1..Len(kw_results) :
          /\ kw_results[i].status = "returned"
          /\ NoDuplicates(kw_results[i].keywords)
          /\ Range(kw_results[i].keywords) \subseteq Range(tech_keywords)
          /\ Range(kw_results[i].keywords) = TermsOccurring(kw_input.text)
          /\ (~kw_input.present \/ kw_input.text = <<>>) => kw_results[i].keywords = <<>>
    /\ \A i, j \in 1..Len(kw_results) :
          Range(kw_results[i].keywords) = Range(kw_results[j].keywords)

\* the four archetypes, in the order of the claim
ArchetypeOrder == <<"data_engineer", "data_scientist", "data_steward", "data_analyst">>

\* the number of relevance keywords of archetype a found in text t
RelevanceOverlap(a, t) ==
    LET entry == CHOOSE i \in 1..Len(title_keywords) : title_keywords[i].archetype = a
    IN  Cardinality({k \in 1..Len(title_keywords[entry].keywords) :
                        IsSubstr(title_keywords[entry].keywords[k], t)})

\* C12: the summary of an adapted profile is the base introduction of the
\* posting's language followed by the specialization sentence of an archetype
\* whose relevance-keyword overlap with the posting text is maximal, the
\* earliest of data_engineer, data_scientist, data_steward, data_analyst on
\* ties (data_engineer when every score is zero).
C12_SummaryFollowsBestArchetype ==
    apc = "done" =>
        \E i \in 1..Len(ArchetypeOrder) :
            /\ \A j \in 1..Len(ArchetypeOrder) :
                   RelevanceOverlap(ArchetypeOrder[j], job_data.raw_text)
                       <= RelevanceOverlap(ArchetypeOrder[i], job_data.raw_text)
            /\ \A j \in 1..(i - 1) :
                   RelevanceOverlap(ArchetypeOrder[j], job_data.raw_text)
                       < RelevanceOverlap(ArchetypeOrder[i], job_data.raw_text)
            /\ (\A j \in 1..Len(ArchetypeOrder) :
                    RelevanceOverlap(ArchetypeOrder[j], job_data.raw_text) = 0) => i = 1
            /\ adapted.summary =
                   (IF job_data.language = "en" THEN base_intro_en(profile) ELSE base_intro_fr(profile))
                   \o <<" ">>
                   \o <<(IF job_data.language = "en" THEN specialization_phrases_en
                         ELSE specialization_phrases_fr)[ArchetypeOrder[i]]>>

\* an English posting whose two best archetypes tie above zero, adapted for a
\* profile that brings its own introduction
C12_Witness ==
    /\ apc = "done"
    /\ job_data.language = "en"
    /\ profile = IntroProfile
    /\ RelevanceOverlap("data_scientist", job_data.raw_text) = 1
    /\ RelevanceOverlap("data_steward", job_data.raw_text) = 1
    /\ RelevanceOverlap("data_engineer", job_data.raw_text) = 0
    /\ adapted.summary = <<"M", "e", " ", specialization_phrases_en["data_scientist"]>>

\* C13: the loaded profile is never mutated in place: no step of a generate,
\* finalize or regenerate request changes the fields or values of any profile
\* entry.
C13_ProfileNeverMutated == [][profile' = profile]_vars

\* C14: adapt_profile never raises: for a posting or a profile missing any of
\* its optional fields it returns an adapted profile whose corresponding
\* outputs are empty values or the documented defaults.
C14_AdaptNeverRaises ==
    /\ apc # "raised"
    /\ apc = "done" =>
          /\ ("title" \notin DOMAIN job_data => adapted.job_title = <<"Data Engineer">>)
          /\ ("company" \notin DOMAIN job_data => adapted.company = <<"Entreprise">>)
          /\ ("location" \notin DOMAIN job_data => adapted.job_location = <<>>)
          /\ ("description" \notin DOMAIN job_data => adapted.job_description = <<>>)
          /\ ("language" \notin DOMAIN job_data => adapted.language = "fr")
          /\ ("certifications" \notin DOMAIN profile => adapted.certifications = <<>>)

\* the declared group an adapted skill entry was made from
DeclaredGroup(entry) == profile.skills[entry.id]

\* C15: skill-item tiering is idempotent: tiering a group whose item list is
\* the output of a previous tiering of that group against the same posting
\* returns the same ordered list, and a second run on the same group and
\* posting returns the list of the first.
C15_TieringIdempotent ==
    apc = "done" =>
        \A k \in 1..Len(adapted.skills) :
            LET entry == adapted.skills[k]
                group == DeclaredGroup(entry)
            IN  /\ adapt_skill([group EXCEPT !.items = entry.items],
                               job_data.keywords, job_data.raw_text).items = entry.items
                /\ adapt_skill(group, job_data.keywords, job_data.raw_text).items = entry.items

\* a group whose tiered list is reordered and cut: it differs from the first
\* six declared items, and tiering it again leaves it as it is
C15_Witness ==
    /\ apc = "done"
    /\ \E k \in 1..Len(adapted.skills) :
          LET entry == adapted.skills[k]
              group == DeclaredGroup(entry)
          IN  /\ Len(group.items) > 6
              /\ Len(entry.items) = 6
              /\ entry.items # Take(group.items, 6)
              /\ \E i \in 1..6 : skill_tier(entry.items[i], job_data.keywords,
                                             job_data.raw_text) = "other"
              /\ adapt_skill([group EXCEPT !.items = entry.items],
                             job_data.keywords, job_data.raw_text).items = entry.items

\* the declared items of a group that fall in tier t, in declared order
ItemsOfTier(group, t) ==
    FilterBy(group.items,
             [i \in 1..Len(group.items) |->
                 skill_tier(group.items[i], job_data.keywords, job_data.raw_text) = t])

\* C16: every declared item of a skill group falls in exactly one of the tiers
\* exact, text, other; the group's item list is the exact items, then the text
\* items, then the other items, each in declared order, cut to the first 6;
\* when the exact and the text tier are both empty it is the first 5 declared
\* items (fewer if the group has fewer) in declared order.
C16_ItemsTieredAndCut ==
    apc = "done" =>
        \A k \in 1..Len(adapted.skills) :
            LET entry == adapted.skills[k]
                group == DeclaredGroup(entry)
                exact == ItemsOfTier(group, "exact")
                text_ == ItemsOfTier(group, "text")
                other == ItemsOfTier(group, "other")
                tiered == exact \o text_ \o other
            IN  /\ \A i \in 1..Len(group.items) :
                       skill_tier(group.items[i], job_data.keywords, job_data.raw_text)
                           \in {"exact", "text", "other"}
                /\ Len(exact) + Len(text_) + Len(other) = Len(group.items)
                /\ IF exact = <<>> /\ text_ = <<>>
                   THEN entry.items = SubSeq(group.items, 1, Min(5, Len(group.items)))
                   ELSE entry.items = SubSeq(tiered, 1, Min(6, Len(tiered)))

\* one group with items in all three tiers and more than six of them, and one
\* group of six items, none of them exact or text, listed with its first five
C16_Witness ==
    /\ apc = "done"
    /\ \E k \in 1..Len(adapted.skills) :
          LET group == DeclaredGroup(adapted.skills[k])
          IN  /\ ItemsOfTier(group, "exact") # <<>>
              /\ ItemsOfTier(group, "text") # <<>>
              /\ ItemsOfTier(group, "other") # <<>>
              /\ Len(group.items) > 6
              /\ Len(adapted.skills[k].items) = 6
    /\ \E k \in 1..Len(adapted.skills) :
          LET group == DeclaredGroup(adapted.skills[k])
          IN  /\ ItemsOfTier(group, "exact") = <<>>
              /\ ItemsOfTier(group, "text") = <<>>
              /\ Len(group.items) = 6
              /\ adapted.skills[k].items = SubSeq(group.items, 1, 5)

\* the score the claim gives a declared group
ClaimedScore(group) ==
    Cardinality({Lower(k) : k \in Range(group.keywords)}
                    \cap {Lower(k) : k \in Range(job_data.keywords)})
        + 5 * Len(ItemsOfTier(group, "exact")) + 2 * Len(ItemsOfTier(group, "text"))

\* C17: a skill group's score is the size of the intersection of its keyword
\* set with the posting keywords, plus 5 per exact-tier item and 2 per
\* text-tier item, counted over all declared items; the groups are ordered by
\* descending score, then descending exact-tier count, remaining ties in
\* declaration order.
C17_SkillScoreAndOrder ==
    apc = "done" =>
        /\ \A k \in 1..Len(adapted.skills) :
               adapted.skills[k].score = ClaimedScore(DeclaredGroup(adapted.skills[k]))
        /\ \A k, l \in 1..Len(adapted.skills) :
               k < l =>
                   LET a == DeclaredGroup(adapted.skills[k])
                       b == DeclaredGroup(adapted.skills[l])
                       ea == Len(ItemsOfTier(a, "exact"))
                       eb == Len(ItemsOfTier(b, "exact"))
                   IN  \/ ClaimedScore(a) > ClaimedScore(b)
                       \/ ClaimedScore(a) = ClaimedScore(b) /\ ea > eb
                       \/ ClaimedScore(a) = ClaimedScore(b) /\ ea = eb /\ a.id < b.id

\* two groups with the same score: the one declared later has more exact items
\* and comes first; its score counts an item that the cut to 6 removed
C17_Witness ==
    /\ apc = "done"
    /\ \E k, l \in 1..Len(adapted.skills) :
          /\ k < l
          /\ adapted.skills[k].id > adapted.skills[l].id
          /\ adapted.skills[k].score = adapted.skills[l].score
          /\ adapted.skills[k].exact_count > adapted.skills[l].exact_count
          /\ Len(DeclaredGroup(adapted.skills[k]).items) > 6

\* the lower-cased posting text holds one of the words
HasSignal(words) == \E i \in 1..Len(words) : IsSubstr(words[i], Lower(job_data.raw_text))

\* C18: in every job context the tone follows the company type (startup or
\* scale-up: casual; large group: formal; any other type: professional), and
\* the company type is startup if the text has a startup signal, else scale-up
\* if it has a scale-up signal, else large group if it has a large-group
\* signal, else the default.
C18_ToneFollowsCompanyType ==
    apc = "done" =>
        LET ctx == adapted.job_context
        IN  /\ ctx.tone = (CASE ctx.company_type \in {"startup", "scale-up"} -> "casual"
                            [] ctx.company_type = "grand groupe" -> "formal"
                            [] OTHER -> "professional")
            /\ ctx.company_type =
                   (IF HasSignal(startup_words) THEN "startup"
                    ELSE IF HasSignal(scaleup_words) THEN "scale-up"
                    ELSE IF HasSignal(group_words) THEN "grand groupe"
                    ELSE "entreprise")

\* a posting with a scale-up and a large-group signal and no startup signal
C18_Witness ==
    /\ apc = "done"
    /\ HasSignal(scaleup_words)
    /\ HasSignal(group_words)
    /\ ~HasSignal(startup_words)
    /\ adapted.job_context.company_type = "scale-up"
    /\ adapted.job_context.tone = "casual"

\* the words of the lower-cased offer text: its maximal runs without a blank
OfferWords ==
    LET t == Lower(text)
    IN  {SubSeq(t, i, j) : i \in 1..Len(t), j \in 1..Len(t)} \cap
        {SubSeq(t, i, j) : <<i, j>> \in
            {p \in (1..Len(t)) \X (1..Len(t)) :
                /\ p[1] <= p[2]
                /\ \A k \in p[1]..p[2] : t[k] # " "
                /\ (p[1] = 1 \/ t[p[1] - 1] = " ")
                /\ (p[2] = Len(t) \/ t[p[2] + 1] = " ")}}

\* the number of words of a list that the offer text holds as a word
WordListCount(words) == Cardinality({i \in 1..Len(words) : words[i] \in OfferWords})

\* C19: when no strong-signal rule fires and the statistical detector is
\* unavailable or fails, the result is "en" exactly when the English word-list
\* count exceeds the French word-list count by more than 3 (a difference of
\* exactly 3 gives "fr"), and "fr" otherwise; an empty text gives "fr".
C19_FallbackNeedsMarginAboveThree ==
    /\ (/\ lpc = "done"
        /\ french_strong(Lower(text)) < 3
        /\ english_strong(Lower(text)) < 2
        /\ (~LANGDETECT_AVAILABLE \/ detector = "raise"))
           => language = (IF WordListCount(english_words) > WordListCount(french_words) + 3
                          THEN "en" ELSE "fr")
    /\ (lpc = "done" /\ text = <<>>) => language = "fr"

\* the detector raised on a text whose English count is exactly 3 above its
\* French count of 1
C19_Witness ==
    /\ lpc = "done"
    /\ LANGDETECT_AVAILABLE
    /\ detector = "raise"
    /\ french_strong(Lower(text)) < 3
    /\ english_strong(Lower(text)) < 2
    /\ WordListCount(french_words) = 1
    /\ WordListCount(english_words) = 4
    /\ language = "fr"

\* the number of an entry's keywords that are posting keywords
HookOverlap(entry) ==
    Cardinality({i \in 1..Len(entry.keywords) : entry.keywords[i] \in Range(adapted.job_keywords)})

\* the first entry of a non-empty list with the highest overlap
BestEntry(entries) ==
    entries[CHOOSE i \in 1..Len(entries) :
                /\ \A j \in 1..Len(entries) : HookOverlap(entries[j]) <= HookOverlap(entries[i])
                /\ \A j \in 1..(i - 1) : HookOverlap(entries[j]) < HookOverlap(entries[i])]

\* the hook the claim describes for the letter being written
ClaimedHook ==
    LET t == t_of(adapted.language)
        openings == edits.accroches
        projets == edits.projets_marquants
        best_opening_score == IF openings = <<>> THEN 0 - 1 ELSE HookOverlap(BestEntry(openings))
        project_replaces ==
            /\ projets # <<>>
            /\ ~(best_opening_score > 0)
            /\ HookOverlap(BestEntry(projets)) > best_opening_score
    IN  IF project_replaces
        THEN BestEntry(projets).description \o <<" : ">> \o BestEntry(projets).impact
                 \o <<".", " ", t.project_impact>>
        ELSE IF openings # <<>> THEN BestEntry(openings).text
        ELSE IF adapted.experiences # <<>>
        THEN <<t.strong_experience, " ">> \o adapted.experiences[1].title \o <<" ", t.at, " ">>
                 \o adapted.experiences[1].company \o <<t.convinced_value>>
        ELSE <<t.accroche_default>>

\* C20: the locally composed hook is the text of the opening statement with the
\* highest keyword overlap (first declared on ties); a notable project's summary
\* replaces it only when no opening statement scores above zero and a project
\* scores strictly higher than the best opening statement; with neither, it is
\* the generic sentence built from the top-ranked experience, or the fully
\* generic sentence when the profile has no experience.
C20_HookAsClaimed ==
    (cover.status = "written" /\ ~Truthy(edits.cover_letter) /\ ~Truthy(mistral_content))
        => cover.segments.accroche = ClaimedHook

\* the sections of the résumé that have a backing list
BackedSections == {"experiences", "education", "skills", "projects", "certifications"}

\* the heading of a section occurs in the markup written
HeadingWritten(section) ==
    \E i \in 1..Len(cv.tex) : cv.tex[i] = translations(adapted.language)[section]

\* C21: a written résumé carries the heading of each of the sections
\* experiences, education, skills, projects and certifications if and only if
\* the list behind that section is non-empty
C21_HeadingIffListNonEmpty ==
    cv.status = "written" =>
        \A section \in BackedSections :
            HeadingWritten(section) <=> Enriched(adapted, edits)[section] # <<>>

\* the opening clause the claim names for the adapted profile
ClaimedOpening ==
    LET ctx == adapted.job_context
        t == t_of(adapted.language)
        company == escape_latex(adapted.company)
    IN  CASE ctx.growth_stage # "" -> company \o <<t.member_of, ctx.growth_stage, t.embodies_ambition>>
          [] ctx.growth_stage = "" /\ ctx.company_type = "startup" ->
                <<t.startup_intro, " ">> \o company \o <<" ", t.offers_environment>>
          [] ctx.growth_stage = "" /\ ctx.company_type = "scale-up" -> company \o <<t.scaleup_intro>>
          [] OTHER -> <<t.mission_caught, " ">> \o company \o <<" ", t.caught_attention>>

\* one complement per non-empty source, in the order values, tech stack, challenges
ClaimedComplements ==
    LET ctx == adapted.job_context
        t == t_of(adapted.language)
        values == IF Len(ctx.values) = 1 THEN <<ctx.values[1]>>
                  ELSE <<ctx.values[1], " ", t.and, " ", ctx.values[2]>>
        stack == JoinWith(<<",", " ">>,
                          [i \in 1..Min(4, Len(ctx.tech_stack)) |-> Upper(ctx.tech_stack[i])])
    IN  (IF ctx.values = <<>> THEN <<>> ELSE << <<t.values_of>> \o values \o <<" ", t.animating_team>> >>)
        \o (IF ctx.tech_stack = <<>> THEN <<>> ELSE << <<t.your_stack, " (">> \o stack \o <<")">> >>)
        \o (IF ctx.key_challenges = <<>> THEN <<>> ELSE << <<t.ambitious_challenges>> >>)

\* the complements joined with the connective form of their count
ClaimedJoin(cs) ==
    LET t == t_of(adapted.language)
    IN  CASE Len(cs) = 1 -> cs[1]
          [] Len(cs) = 2 -> cs[1] \o <<",", " ", t.as_well_as, " ">> \o cs[2]
          [] Len(cs) = 3 -> cs[1] \o <<",", " ">> \o cs[2] \o <<",", " ", t.and, " ">> \o cs[3]

\* C22: with no override, the employer-fit segment of every letter composed
\* starts with the one opening clause chosen by growth stage, startup, scale-up,
\* default in that order, followed by one complement per non-empty source among
\* values (first 2), tech stack (first 4, upper-cased) and challenges, joined
\* with the connective form of their count; a segment is produced for every
\* count from 0 to 3
C22_EmployerFitForEveryCount ==
    cover.status # "none" =>
        /\ cover.status = "written"
        /\ LET segment == cover.segments.entreprise
               n == Len(ClaimedOpening)
           IN  /\ Len(segment) >= n
               /\ SubSeq(segment, 1, n) = ClaimedOpening
               /\ ClaimedComplements # <<>> =>
                      segment = ClaimedOpening \o <<".", " ", t_of(adapted.language).appreciate, " ">>
                                    \o ClaimedJoin(ClaimedComplements) \o <<".">>

\* the skill items of the ranked groups, in the order the groups list them
RankedItems == Flatten([i \in 1..Len(adapted.skills) |-> adapted.skills[i].items])

\* the item is an exact posting keyword, is literally present in the posting
\* description, or contains a posting keyword of at least 3 characters
Qualifies(item) ==
    \/ \E k \in Range(adapted.job_keywords) : Lower(k) = Lower(item)
    \/ IsSubstr(Lower(item), Lower(adapted.job_description))
    \/ \E k \in Range(adapted.job_keywords) : Len(k) >= 3 /\ IsSubstr(Lower(k), Lower(item))

\* the items the claim lists in the pitch
ClaimedPitchItems ==
    LET qualifying == Dedupe(FilterBy(RankedItems,
                                      [i \in 1..Len(RankedItems) |-> Qualifies(RankedItems[i])]))
        firsts == Flatten([i \in 1..Min(3, Len(adapted.skills)) |->
                              Take(adapted.skills[i].items, 2)])
    IN  IF qualifying # <<>> THEN Take(qualifying, 4) ELSE Take(firsts, 4)

\* the collaboration sentence that lists the given items
PitchSentence(items) ==
    LET t == t_of(adapted.language)
    IN  <<t.joining_team, " ">> \o escape_latex(adapted.job_title)
            \o <<" ", t.represents_opportunity, " (\\textbf{">>
            \o JoinWith(<<",", " ">>, [i \in 1..Len(items) |-> escape_latex(items[i])])
            \o <<"}) ", t.at_service, t.qualites_default, " ", t.will_be_assets>>

\* C23: the collaboration pitch of a locally composed letter lists at most 4
\* skill items, none repeated: the first qualifying items in discovery order
\* over the ranked groups, or, when none qualifies, the first 2 items of each
\* of the top 3 groups
C23_PitchItemsAsClaimed ==
    cover.status = "written" =>
        /\ cover.segments.nous = PitchSentence(ClaimedPitchItems)
        /\ Len(ClaimedPitchItems) <= 4
        /\ \A i, j \in 1..Len(ClaimedPitchItems) :
               ClaimedPitchItems[i] = ClaimedPitchItems[j] => i = j

\* the ways a call of the external generator fails
FailedReplies == {"not_installed", "network_error", "unparseable"}

\* C24: when the external generator is not available, fails on the network or
\* returns content that is not JSON, it yields no map and the letter call ends
\* exactly as it does with no generator configured: the same segments and
\* markup, or the same failure
C24_FailedGeneratorIsNoOverride ==
    (cover.status # "none" /\ mistral_reply \in FailedReplies) =>
        /\ mistral_content = NoMap
        /\ cover = letter_result(Enriched(adapted, edits), NoMap)

C24_Witness ==
    /\ cover.status = "written"
    /\ MISTRAL_API_KEY
    /\ mistral_reply = "unparseable"
    /\ ~Truthy(edits.cover_letter)

\* the handlers that render, compile and upload the two documents
DocumentHandlers == {"generate", "finalize", "regenerate"}

\* C25: a generate, finalize or regenerate request writes markup and compiled
\* files only in the scratch directory created for it, under names that carry
\* the request identifier, and that directory is gone when the request has
\* ended, whether it succeeded or a compilation or an upload failed
C25_ScratchDirectoryScoped ==
    served \in DocumentHandlers =>
        /\ \A f \in exchange.written :
               /\ f.dir = exchange.tmp_dir
               /\ f.file.id = exchange.id
               /\ f.file.ext \in {"tex", "pdf"}
        /\ exchange.written # {} => exchange.tmp_dir = exchange.n
        /\ exchange.tmp_dir \notin tmp_dirs
        /\ tmp_dirs = {}

C25_Witness ==
    /\ served = "finalize"
    /\ exchange.status = 500
    /\ exchange.compiled = [cv |-> "True", cover |-> "False"]
    /\ Cardinality(exchange.written) = 3
    /\ tmp_dirs = {}

\* a step that serves one request
Serves(handlers) ==
    /\ exchange'.n = exchange.n + 1
    /\ served' \in handlers

RecordsOf(apps, id) == {i \in 1..Len(apps) : apps[i].id = id}

\* C26: under sequential requests, preview, generate and finalize for an id with
\* no stored analysis answer 404 and change nothing stored; a successful
\* generate or finalize for an id deletes its analysis and leaves exactly one
\* application record with that id; no id with a record has an analysis left
\* (so a later generate or finalize for it answers 404), and no two records
\* share an id
C26_TempAnalysisLifecycle ==
    [][Serves({"preview", "generate", "finalize"}) =>
           /\ exchange'.id \notin DOMAIN temp_analyses =>
                  /\ exchange'.status = 404
                  /\ UNCHANGED <<temp_analyses, applications, uploaded>>
           /\ (served' # "preview" /\ exchange'.status = 200) =>
                  /\ exchange'.id \notin DOMAIN temp_analyses'
                  /\ Cardinality(RecordsOf(applications', exchange'.id)) = 1
                  /\ Len(applications') = Len(applications) + 1
           /\ \A i \in 1..Len(applications') :
                  /\ applications'[i].id \notin DOMAIN temp_analyses'
                  /\ Cardinality(RecordsOf(applications', applications'[i].id)) = 1]_vars

C26_Witness ==
    /\ served \in {"generate", "finalize"}
    /\ exchange.status = 404
    /\ RecordsOf(applications, exchange.id) # {}
    /\ exchange.id \notin DOMAIN temp_analyses

\* C28: when compile_latex returns False for either document during generate or
\* finalize, the request ends with an error and nothing persistent changes: no
\* application record saved, the analysis kept, no document uploaded
C28_CompileFailureLeavesNoTrace ==
    [][(/\ Serves({"generate", "finalize"})
        /\ "False" \in {exchange'.compiled.cv, exchange'.compiled.cover}) =>
           /\ exchange'.status = 500
           /\ UNCHANGED <<applications, temp_analyses, uploaded>>]_vars

\* C29: regenerate for an id with no application answers 404 and changes
\* nothing; for an existing id, with no compilation failing, it writes both
\* documents, answers success and leaves the record with cv_data and cover_data
\* equal to the request's content
C29_RegenerateStoresEdits ==
    [][Serves({"regenerate"}) =>
           IF RecordsOf(applications, exchange'.id) = {}
           THEN /\ exchange'.status = 404
                /\ UNCHANGED <<temp_analyses, applications, uploaded>>
           ELSE "False" \notin {exchange'.compiled.cv, exchange'.compiled.cover} =>
                    /\ exchange'.status = 200
                    /\ cv'.status = "written"
                    /\ cover'.status = "written"
                    /\ \A i \in RecordsOf(applications', exchange'.id) :
                           /\ {"cv_data", "cover_data"} \subseteq DOMAIN applications'[i]
                           /\ applications'[i].cv_data = request.cv
                           /\ applications'[i].cover_data = request.coverLetter]_vars

\* every request has been answered
AllAnswered == \A w \in Workers : workers[w].pc = "done"

\* the requests are about different application ids
DifferentIds == \A v, w \in Workers : workers[v].id = workers[w].id => v = w

\* C27: in local-file mode, once concurrent requests about different ids, a
\* successful generation among them, have all completed, the record of every
\* successful generation is in the stored list, every status update of a record
\* shows on it, and every deleted record is gone, whatever the interleaving
C27_ConcurrentRequestsIndependent ==
    (/\ AllAnswered
     /\ DifferentIds
     /\ \E w \in Workers : workers[w].op = "generate" /\ workers[w].status = 200) =>
        \A w \in Workers :
            /\ (workers[w].op = "generate" /\ workers[w].status = 200) =>
                   RecordsOf(applications, workers[w].id) # {}
            /\ (workers[w].op = "status" /\ RecordsOf(workers[w].loaded, workers[w].id) # {}) =>
                   \E i \in RecordsOf(applications, workers[w].id) :
                       applications[i].status = "interview"
            /\ workers[w].op = "delete" => RecordsOf(applications, workers[w].id) = {}

\* the run on the same posting with its keyword list enumerated the other way
OtherOrderAdapted ==
    adapt_profile(profile, [job_data EXCEPT !.keywords = Reverse(job_data.keywords)])

\* C30: the experience ranking, the skill tiers and scores and the five locally
\* composed letter segments are the same for the two orders in which the
\* keyword list of a posting may come, however many keywords it has
C30_KeywordOrderIrrelevant ==
    (apc = "done" /\ cover.status # "none") =>
        /\ OtherOrderAdapted.experiences = adapted.experiences
        /\ OtherOrderAdapted.skills = adapted.skills
        /\ OtherOrderAdapted.certifications = adapted.certifications
        /\ letter_result(Enriched(OtherOrderAdapted, edits), mistral_content).segments
               = cover.segments

====
